---- MODULE Spec2Model ----
(***************************************************************************)
(* Verification model of the resource-control layer of the forum server:   *)
(* the query cache (server/queries/cached_queries.go), the token-bucket    *)
(* rate limiter (middleware/ratelimit.go) and the route wiring that shares *)
(* one limiter among three tiers (routes/routes.go).                       *)
(*                                                                         *)
(* Strings are sequences of one-character strings, so that len(), slicing  *)
(* (key[:n]) and prefix comparison are computed as the Go code computes    *)
(* them.  Times are integers; the unit is stated with each specification.  *)
(***************************************************************************)
EXTENDS Integers, Sequences, FiniteSets, TLC

VARIABLES
    now,        \* time.Now(): the (monotonic) clock reading
    ttl,        \* QueryCache.ttl
    items,      \* QueryCache.items: key -> cacheItem
    op,         \* the last cache-store call: its arguments and what it returned
    sets,       \* history: per watched key, the value and the time of the
                \* latest Set of it, what the store held for the key before
                \* it, and whether an Invalidate of a prefix of the key was
                \* called since
    visitors,   \* RateLimiter.visitors: key -> visitor
    maxRequests,\* RateLimit's maxRequests (the policy of SpecLimiter)
    window,     \* RateLimit's window (the policy of SpecLimiter)
    req,        \* the last rate-limiter call: its arguments and what it returned
    calls,      \* history: per visitor record of an observed client, when it
                \* was created and the number of Allow calls made for it since
                \* (the creating one included)
    loginLog,   \* history: per client, the times of its latest admissions to
                \* login-tier routes
    rejected,   \* history: per observed client, its latest run of rejected
                \* Allow calls: when it began, how many they were, and whether
                \* an admitted call has ended it
    solo,       \* history: the visitors and the last Allow result of a limiter
                \* that gets the observed clients' calls only, at the same
                \* times and with the same sweeps
    db,         \* the version of the data the underlying queries read
    rd,         \* per request goroutine: where it is in a cached read
    wr,         \* the writing goroutine: where it is in write-then-invalidate
    res,        \* what the last completed cached read returned
    memo,       \* history: per key, the value a cached read last computed and
                \* stored, and when; forgotten when the key is invalidated
    hist,       \* history: the version of the last write whose
                \* InvalidatePostCache has returned, and the keys invalidated
                \* with no cached read in flight and not read since
    mu,         \* QueryCache.mu (RateLimiter.mu in SpecAllow): the goroutines
                \* holding it shared, and the one holding it exclusively
    gr,         \* per goroutine calling the cache store (the limiter in
                \* SpecAllow): the call it makes and where it is in it
    seed,       \* history: the store (the visitors in SpecAllow) as the
                \* concurrent calls found it
    posts,      \* the rows of the posts table, in insertion order
    links,      \* the rows of the post_category table
    reactions,  \* the rows of the post_reactions table: (user, post) -> reaction
    out,        \* the last command: its input and what the handler returned
    bucket,     \* history of one identity's token bucket: the admissions
                \* since a chosen instant, the tokens credited to the current
                \* visitor record, and the visitors of a limiter that gets the
                \* same calls and is never swept
    templateCache,  \* utils.templateCache: template name -> parsed template
    parses,     \* history: per template name, the successful parses so far
    schema_migrations,  \* the rows of the schema_migrations table
    tables,     \* the migrations whose SQL the database schema reflects
    up          \* the last Migrator.Up call: what it found, did and returned

storeVars == <<now, ttl, items, op, sets>>
limVars == <<visitors, maxRequests, window, req, calls, loginLog, rejected, solo>>
svcVars == <<db, rd, wr, res, memo, hist>>
lockVars == <<mu, gr, seed>>
cmdVars == <<posts, links, reactions, out>>
tplVars == <<templateCache, parses>>
migVars == <<schema_migrations, tables, up>>
extVars == <<bucket, tplVars, migVars>>
vars == <<now, ttl, items, op, sets, visitors, maxRequests, window, req, calls, loginLog,
          rejected, solo, db, rd, wr, res, memo, hist, mu, gr, seed,
          posts, links, reactions, out, bucket, templateCache, parses,
          schema_migrations, tables, up>>

\* what a cache-store operation leaves alone, what a limiter operation leaves
\* alone, what an operation of the cached query service leaves alone, what
\* a step of a cache-store call under the lock leaves alone, and what a
\* command leaves alone
nonStoreVars == <<limVars, svcVars, lockVars, cmdVars, extVars>>
nonLimVars == <<ttl, items, op, sets, svcVars, lockVars, cmdVars, extVars>>
nonSvcVars == <<op, sets, limVars, lockVars, cmdVars, extVars>>
nonLockVars == <<ttl, op, sets, limVars, svcVars, cmdVars, extVars>>
nonCmdVars == <<storeVars, limVars, svcVars, lockVars, extVars>>

-----------------------------------------------------------------------------
(* Bounds *)

MaxNow == 3         \* the clock is observed at 0..MaxNow
MaxTTL == 2         \* NewQueryCache is constructed with a ttl in 1..MaxTTL
MaxTokens == 3      \* SpecLimiter's policy has maxRequests in 1..MaxTokens
MaxStep == 2        \* the limiter's clock is observed 0..MaxStep units into an hour
MaxRaceNow == 2     \* SpecRace observes the clock at 0..MaxRaceNow
MaxWrites == 1      \* the underlying data is written at most MaxWrites times
MaxSpan == 4        \* the bucket of SpecBucket is called at the times 0..MaxSpan
MaxMigrations == 4  \* the migrations directory holds at most MaxMigrations files
MaxPosts == 1       \* the posts table holds at most MaxPosts rows

-----------------------------------------------------------------------------
(* Strings *)

\* Go's s[:n] for 0 <= n <= len(s)
Slice(s, n) == SubSeq(s, 1, n)

\* strings.HasPrefix: the meaning of "key starts with prefix"
HasPrefix(s, p) == Len(p) <= Len(s) /\ Slice(s, Len(p)) = p

-----------------------------------------------------------------------------
(* The cache store: QueryCache *)

\* keys and prefixes the store operations are called with
StoreKeys == { <<"a">>, <<"a", "/", "1">>, <<"b", "/", "1">> }
StorePrefixes == { <<>>, <<"a">>, <<"a", "/">>, <<"b", "/">>, <<"c", "/">> }
Data == {1, 2}      \* opaque payloads
NoData == 0         \* nil

\* cacheItem
CacheItem(d, e) == [data |-> d, expiresAt |-> e]

\* time.Time.After
After(t, u) == t > u

NoOp == [kind |-> "none", key |-> <<>>, found |-> FALSE, data |-> NoData,
         panicked |-> FALSE]

\* Get without the expiry check
GetResultNoExpiry(m, k, t) ==
    IF k \notin DOMAIN m THEN <<NoData, FALSE>> ELSE <<m[k].data, TRUE>>

\* QueryCache.Get's result for the store m at time t: <<data, found>>
GetResult(m, k, t) ==
    IF k \notin DOMAIN m THEN <<NoData, FALSE>>
    ELSE IF After(t, m[k].expiresAt) THEN <<NoData, FALSE>>
    ELSE <<m[k].data, TRUE>>

\* a Set that keeps the expiry of an entry it replaces
SetResultKeepExpiry(m, k, d, t) ==
    [x \in DOMAIN m \cup {k} |->
        IF x # k THEN m[x]
        ELSE IF k \in DOMAIN m THEN CacheItem(d, m[k].expiresAt)
        ELSE CacheItem(d, t + ttl)]

\* a Set that stores nothing
SetResultDropped(m, k, d, t) == m

\* QueryCache.Set's effect on the store m at time t
SetResult(m, k, d, t) ==
    [x \in DOMAIN m \cup {k} |-> IF x = k THEN CacheItem(d, t + ttl) ELSE m[x]]

\* a loop condition without the empty-prefix case
MatchesNonEmpty(k, p) == Len(p) # 0 /\ Slice(k, Len(p)) = p

\* a loop condition that compares the whole key
MatchesExact(k, p) == Len(p) = 0 \/ k = p

\* the condition of Invalidate's loop body for a key the slice is defined for
Matches(k, p) == Len(p) = 0 \/ Slice(k, Len(p)) = p

\* key[:len(keyPrefix)] panics (slice bounds out of range) for these keys
SliceOutOfRange(k, p) == Len(p) # 0 /\ Len(p) > Len(k)

\* the store m without the keys in D
Without(m, D) == [x \in DOMAIN m \ D |-> m[x]]

\* the stores QueryCache.Invalidate can leave, each with whether it panicked.
\* The loop ranges over the map in an unspecified order and deletes each
\* matching key it visits; the first key shorter than the prefix it visits
\* panics, and the deferred Unlock leaves the store as deleted so far.
InvalidateOutcomes(m, p) ==
    LET short == {k \in DOMAIN m : SliceOutOfRange(k, p)}
        hit   == {k \in DOMAIN m \ short : Matches(k, p)}
    IN  IF short = {}
        THEN { [store |-> Without(m, hit), panicked |-> FALSE] }
        ELSE { [store |-> Without(m, D), panicked |-> TRUE] : D \in SUBSET hit }

\* a cleanup pass that also removes the entries expiring at this instant
CleanupResultEager(m, t) == Without(m, {k \in DOMAIN m : t >= m[k].expiresAt})

\* a cleanup pass that removes every entry
CleanupResultAll(m, t) == Without(m, DOMAIN m)

\* the store after one pass of QueryCache.cleanup at time t
CleanupResult(m, t) == Without(m, {k \in DOMAIN m : After(t, m[k].expiresAt)})

\* a Get that deletes the expired entry it finds
GetEvicting(k) ==
    /\ op' = [NoOp EXCEPT !.kind = "Get", !.key = k,
                          !.data = GetResult(items, k, now)[1],
                          !.found = GetResult(items, k, now)[2]]
    /\ items' = IF k \in DOMAIN items /\ After(now, items[k].expiresAt)
                THEN Without(items, {k})
                ELSE items
    /\ UNCHANGED <<now, ttl, sets, nonStoreVars>>

Get(k) ==
    /\ op' = [NoOp EXCEPT !.kind = "Get", !.key = k,
                          !.data = GetResult(items, k, now)[1],
                          !.found = GetResult(items, k, now)[2]]
    /\ UNCHANGED <<now, ttl, items, sets, nonStoreVars>>

\* the keys whose Sets the history records
Watched == { <<"a", "/", "1">> }

\* history: what the store m held for k at time t
Held(m, k, t) ==
    IF k \notin DOMAIN m THEN "absent"
    ELSE IF After(t, m[k].expiresAt) THEN "expired"
    ELSE "live"

\* history: the latest Sets after Set(k, d) on the store m at time t
Stored(h, m, k, d, t) ==
    IF k \notin Watched THEN h
    ELSE [x \in DOMAIN h \cup {k} |->
             IF x = k THEN [data |-> d, at |-> t, was |-> Held(m, k, t),
                            invalidated |-> FALSE]
             ELSE h[x]]

\* history: the latest Sets after Invalidate(p) was called
Voided(h, p) ==
    [x \in DOMAIN h |-> IF HasPrefix(x, p) THEN [h[x] EXCEPT !.invalidated = TRUE]
                        ELSE h[x]]

Set(k, d) ==
    /\ items' = SetResult(items, k, d, now)
    /\ op' = [NoOp EXCEPT !.kind = "Set", !.key = k, !.data = d]
    /\ sets' = Stored(sets, items, k, d, now)
    /\ UNCHANGED <<now, ttl, nonStoreVars>>

Invalidate(p) ==
    \E o \in InvalidateOutcomes(items, p) :
        /\ items' = o.store
        /\ op' = [NoOp EXCEPT !.kind = "Invalidate", !.key = p,
                              !.panicked = o.panicked]
        /\ sets' = Voided(sets, p)
        /\ UNCHANGED <<now, ttl, nonStoreVars>>

cleanup ==
    /\ items' = CleanupResult(items, now)
    /\ op' = [NoOp EXCEPT !.kind = "cleanup"]
    /\ UNCHANGED <<now, ttl, sets, nonStoreVars>>

Tick ==
    /\ now < MaxNow
    /\ now' = now + 1
    /\ op' = [NoOp EXCEPT !.kind = "Tick"]
    /\ UNCHANGED <<ttl, items, sets, nonStoreVars>>

\* the cache before its first call
StoreIdle ==
    /\ ttl = 1
    /\ items = <<>>
    /\ op = NoOp
    /\ sets = <<>>

\* the cached query service before its first call
ServiceIdle ==
    /\ db = 1
    /\ rd = <<>>
    /\ wr = "idle"
    /\ res = [kind |-> "none"]
    /\ memo = <<>>
    /\ hist = [committed |-> 1, flushed |-> {}]

\* the rate limiter before its first call
LimiterIdle ==
    /\ visitors = <<>>
    /\ maxRequests = 1
    /\ window = 1
    /\ req = [kind |-> "none", key |-> "", max |-> 0, ok |-> FALSE]
    /\ calls = <<>>
    /\ loginLog = <<>>
    /\ rejected = <<>>
    /\ solo = [visitors |-> <<>>, ok |-> FALSE]

\* no goroutine holds or holds shared
NoGoroutine == "none"

\* the cache's lock and its callers before the first call
LockIdle ==
    /\ mu = [readers |-> {}, writer |-> NoGoroutine]
    /\ gr = <<>>
    /\ seed = <<>>

\* the command side before its first command: empty tables
CommandsIdle ==
    /\ posts = <<>>
    /\ links = {}
    /\ reactions = <<>>
    /\ out = [kind |-> "none"]

\* no bucket is watched
BucketIdle == bucket = <<>>

\* the template cache when the package is loaded: an empty map
TemplatesIdle ==
    /\ templateCache = <<>>
    /\ parses = <<>>

\* a database no migration was applied to, and no Up call yet
MigratorIdle ==
    /\ schema_migrations = {}
    /\ tables = {}
    /\ up = [kind |-> "none"]

ExtIdle == BucketIdle /\ TemplatesIdle /\ MigratorIdle

StoreInit ==
    /\ now = 0
    /\ ttl \in 1..MaxTTL
    /\ items = <<>>
    /\ op = NoOp
    /\ sets = <<>>
    /\ LimiterIdle
    /\ ServiceIdle
    /\ LockIdle
    /\ CommandsIdle
    /\ ExtIdle

StoreNext ==
    \/ \E k \in StoreKeys : Get(k)
    \/ \E k \in StoreKeys, d \in Data : Set(k, d)
    \/ \E p \in StorePrefixes : Invalidate(p)
    \/ cleanup
    \/ Tick

SpecStore == StoreInit /\ [][StoreNext]_vars

-----------------------------------------------------------------------------
(* Claims about the cache store, checked under SpecStore (time unit: any) *)

C2_InvalidateRemovesExactlyPrefixed ==
    [][\A p \in StorePrefixes :
          Invalidate(p) =>
              items' = Without(items, {k \in DOMAIN items : HasPrefix(k, p)})]_vars

\* C3: no cache-store operation terminates abnormally, whatever the input
\* and the store content.
C3_NoAbnormalTermination == ~op.panicked

\* C11: a Get(k) made strictly within the TTL of the latest Set(k, v), with
\* no Invalidate of a prefix of k called since that Set, returns (v, true),
\* whatever the store held for k before the Set and whatever cleanup passes
\* and calls on other keys or prefixes came in between.
C11_SetThenGetWithinTTL ==
    (/\ op.kind = "Get"
     /\ op.key \in DOMAIN sets
     /\ ~sets[op.key].invalidated
     /\ now < sets[op.key].at + ttl)
        => (op.found /\ op.data = sets[op.key].data)

\* a Set that replaced an entry is read back at a later instant within its TTL
C11_Witness ==
    /\ op.kind = "Get" /\ op.found
    /\ op.key \in DOMAIN sets
    /\ sets[op.key].was # "absent"
    /\ ~sets[op.key].invalidated
    /\ now > sets[op.key].at
    /\ now < sets[op.key].at + ttl
    /\ op.data = sets[op.key].data

\* C12: Set on an existing key replaces the value and the expiry
\* (expiresAt = time of this Set + ttl); every entry of the store has
\* expiresAt <= now + ttl, and a value Get returns was stored by the latest
\* Set of the key, at most ttl earlier.
C12_SetRestampsExpiry ==
    /\ \A k \in DOMAIN items : items[k].expiresAt <= now + ttl
    /\ op.kind = "Set" =>
          /\ op.key \in DOMAIN items
          /\ items[op.key] = CacheItem(op.data, now + ttl)
    /\ (op.kind = "Get" /\ op.found /\ op.key \in Watched) =>
          /\ op.key \in DOMAIN sets
          /\ op.data = sets[op.key].data
          /\ now - sets[op.key].at <= ttl

\* a Set that replaced a live entry is read back exactly ttl later, after the
\* replaced entry's own expiry
C12_Witness ==
    /\ op.kind = "Get" /\ op.found
    /\ op.key \in DOMAIN sets
    /\ sets[op.key].was = "live"
    /\ sets[op.key].at > 0
    /\ now = sets[op.key].at + ttl

\* C21: a cleanup pass deletes exactly the entries Get treats as expired at
\* that time and no others, so Get returns the same result for every key
\* whether or not the pass ran before it.
C21_CleanupInvisibleToGet ==
    [][cleanup =>
          /\ items' = Without(items, {k \in DOMAIN items : ~GetResult(items, k, now)[2]})
          /\ \A k \in StoreKeys : GetResult(items', k, now) = GetResult(items, k, now)]_vars

\* a pass has removed the expired entry of the watched key and has kept an
\* entry that expires at this very instant
C21_Witness ==
    /\ op.kind = "cleanup"
    /\ \E k \in Watched :
          /\ k \in DOMAIN sets /\ ~sets[k].invalidated
          /\ now > sets[k].at + ttl
          /\ k \notin DOMAIN items
    /\ \E x \in DOMAIN items : items[x].expiresAt = now

\* C23: Invalidate(prefix) is idempotent: a second call with the same prefix,
\* right after the first, leaves the store as the first call left it.
C23_InvalidateIdempotent ==
    [][\A p \in StorePrefixes :
          (Invalidate(p) /\ op.kind = "Invalidate" /\ op.key = p) => items' = items]_vars

\* C24: Invalidate("") removes every entry: after it returns the store is
\* empty and Get reports not-found for every key.
C24_EmptyPrefixFlushesAll ==
    (op.kind = "Invalidate" /\ op.key = <<>>) =>
        /\ ~op.panicked
        /\ DOMAIN items = {}
        /\ \A k \in StoreKeys : ~GetResult(items, k, now)[2]

\* a flush of a store that held the watched key's live entry
C24_Witness ==
    /\ op.kind = "Invalidate" /\ op.key = <<>>
    /\ \E k \in Watched :
          /\ k \in DOMAIN sets /\ sets[k].invalidated
          /\ now <= sets[k].at + ttl
    /\ DOMAIN items = {}

\* C25: Get never changes the store, on a hit, on a miss for an absent key
\* and on a miss for an expired key (the expired entry stays in the map), and
\* a key that was never Set is reported not-found.
C25_GetLeavesStoreAlone ==
    [][\A k \in StoreKeys :
          Get(k) =>
              /\ items' = items
              /\ (k \in Watched /\ k \notin DOMAIN sets) => ~op'.found]_vars

\* a Get has missed on the watched key's expired entry, which is still in
\* the map as it was stored
C25_Witness ==
    /\ op.kind = "Get" /\ ~op.found
    /\ op.key \in DOMAIN sets
    /\ op.key \in DOMAIN items
    /\ items[op.key] = CacheItem(sets[op.key].data, sets[op.key].at + ttl)
    /\ now > items[op.key].expiresAt

-----------------------------------------------------------------------------
(* The rate limiter: RateLimiter, RateLimit (middleware/ratelimit.go).     *)
(* Time unit of the limiter specifications: 600 ms, the public tier's      *)
(* refill interval (time.Minute / 100).                                    *)

Minute == 100       \* time.Minute
Hour == 6000        \* time.Hour

\* client identities: the strings getClientIP returns
Clients == {"ip1", "ip2"}

\* the clock readings of SpecLimiter: the first units of two consecutive hours
Instants == (0..MaxStep) \cup {Hour + s : s \in 0..MaxStep}

\* a visitor whose lastRefill is the zero time
VisitorEpoch(n, t) == [tokens |-> n, lastRefill |-> 0]

\* visitor
Visitor(n, t) == [tokens |-> n, lastRefill |-> t]

\* a first request that does not consume a token
InitialTokensFull(maxTokens) == maxTokens

\* the tokens of a visitor created by its first request
InitialTokens(maxTokens) == maxTokens - 1

\* min without the cap
minUncapped(a, b) == a

min(a, b) == IF a < b THEN a ELSE b

\* a division that rounds up
DivRoundUp(a, b) == (a + b - 1) \div b

\* Go's integer division of non-negative operands
Div(a, b) == a \div b

\* a refill interval of the whole window
RefillRateWindow(w, n) == w

\* RateLimit: refillRate := window / time.Duration(maxRequests)
RefillRate(w, n) == Div(w, n)

\* an Allow that stamps lastRefill = now on every call for an existing visitor
AllowResultStamp(vs, key, maxTokens, refillRate, t) ==
    IF key \notin DOMAIN vs
    THEN [visitors |-> [x \in DOMAIN vs \cup {key} |->
                           IF x = key THEN Visitor(InitialTokens(maxTokens), t) ELSE vs[x]],
          ok |-> TRUE]
    ELSE LET v == vs[key]
             tokensToAdd == Div(t - v.lastRefill, refillRate)
             tokens == IF tokensToAdd > 0 THEN min(v.tokens + tokensToAdd, maxTokens)
                       ELSE v.tokens
         IN  IF tokens > 0
             THEN [visitors |-> [vs EXCEPT ![key] = Visitor(tokens - 1, t)], ok |-> TRUE]
             ELSE [visitors |-> [vs EXCEPT ![key] = Visitor(tokens, t)], ok |-> FALSE]

\* RateLimiter.Allow(key, maxTokens, refillRate) on the visitors vs at time t:
\* the visitors it leaves and what it returns
AllowResult(vs, key, maxTokens, refillRate, t) ==
    IF key \notin DOMAIN vs
    THEN [visitors |-> [x \in DOMAIN vs \cup {key} |->
                           IF x = key THEN Visitor(InitialTokens(maxTokens), t) ELSE vs[x]],
          ok |-> TRUE]
    ELSE LET v == vs[key]
             elapsed == t - v.lastRefill
             tokensToAdd == Div(elapsed, refillRate)
             refilled == IF tokensToAdd > 0
                         THEN Visitor(min(v.tokens + tokensToAdd, maxTokens), t)
                         ELSE v
         IN  IF refilled.tokens > 0
             THEN [visitors |-> [vs EXCEPT ![key] =
                                    Visitor(refilled.tokens - 1, refilled.lastRefill)],
                   ok |-> TRUE]
             ELSE [visitors |-> [vs EXCEPT ![key] = refilled], ok |-> FALSE]

\* a sweep that removes every visitor
StaleAll(vs, t) == DOMAIN vs

\* a sweep that also removes the visitors last refilled exactly an hour ago
StaleAtHour(vs, t) == {k \in DOMAIN vs : t - vs[k].lastRefill >= Hour}

\* a sweep that removes every visitor as soon as one is stale
StaleTogether(vs, t) ==
    IF \E k \in DOMAIN vs : t - vs[k].lastRefill > Hour THEN DOMAIN vs ELSE {}

\* the visitors one pass of RateLimiter.cleanupLoop removes at time t
Stale(vs, t) == {k \in DOMAIN vs : t - vs[k].lastRefill > Hour}

\* the clients whose calls the history records
Observed == {"ip1"}

\* history: the record of calls after an Allow call for key at time t
CallsAfter(cs, key, existed, t) ==
    IF key \notin Observed THEN cs
    ELSE [x \in DOMAIN cs \cup {key} |->
            IF x # key THEN cs[x]
            ELSE IF existed THEN [cs[x] EXCEPT !.n = min(cs[x].n + 1, MaxTokens + 2)]
            ELSE [first |-> t, n |-> 1]]

\* history: the runs of rejections after an Allow call for key at time t
\* returned ok
RejectedAfter(rj, key, ok, t) ==
    IF key \notin Observed THEN rj
    ELSE IF ok
    THEN [x \in DOMAIN rj |-> IF x = key THEN [rj[x] EXCEPT !.open = FALSE] ELSE rj[x]]
    ELSE [x \in DOMAIN rj \cup {key} |->
             IF x # key THEN rj[x]
             ELSE IF key \in DOMAIN rj /\ rj[key].open
             THEN [rj[key] EXCEPT !.n = min(@ + 1, 2)]
             ELSE [at |-> t, n |-> 1, open |-> TRUE]]

\* history: the limiter that gets the observed clients' calls only, after an
\* Allow call for key with policy (n, w) at time t
SoloAfter(so, key, n, w, t) ==
    IF key \notin Observed THEN so
    ELSE AllowResult(so.visitors, key, n, RefillRate(w, n), t)

\* http.Error(w, ..., http.TooManyRequests)
TooManyRequests == "429 Too Many Requests"

\* a middleware that runs the wrapped handler before it asks the limiter
HandledServeFirst(ok) ==
    IF ~ok THEN <<"next", "Allow", TooManyRequests>> ELSE <<"next", "Allow">>

\* what the middleware's handler does, in order, given Allow's answer: the
\* call of Allow, then http.Error with 429 and return, or next(w, r)
Handled(ok) ==
    IF ~ok THEN <<"Allow", TooManyRequests>> ELSE <<"Allow", "next">>

\* the RateLimit middleware with policy (n, w) handling a request of client key
RateLimit(key, n, w) ==
    LET r == AllowResult(visitors, key, n, RefillRate(w, n), now)
    IN  /\ visitors' = r.visitors
        /\ req' = [kind |-> "Allow", key |-> key, max |-> n, ok |-> r.ok,
                   did |-> Handled(r.ok)]

\* one pass of RateLimiter.cleanupLoop
cleanupLoop ==
    /\ visitors' = [k \in DOMAIN visitors \ Stale(visitors, now) |-> visitors[k]]
    /\ calls' = [k \in DOMAIN calls \ Stale(visitors, now) |-> calls[k]]
    /\ solo' = [solo EXCEPT !.visitors =
                    [k \in DOMAIN @ \ Stale(@, now) |-> @[k]]]
    /\ req' = [kind |-> "sweep", key |-> "", max |-> 0, ok |-> FALSE]
    /\ UNCHANGED <<now, maxRequests, window, loginLog, rejected, nonLimVars>>

\* the clock advances to a later reading
Advance ==
    /\ \E t \in Instants : t > now /\ now' = t
    /\ req' = [kind |-> "Tick", key |-> "", max |-> 0, ok |-> FALSE]
    /\ UNCHANGED <<visitors, maxRequests, window, calls, loginLog, rejected, solo,
                   nonLimVars>>

\* a request of client key under the one policy of this limiter
Request(key) ==
    /\ RateLimit(key, maxRequests, window)
    /\ calls' = CallsAfter(calls, key, key \in DOMAIN visitors, now)
    /\ rejected' = RejectedAfter(rejected, key, req'.ok, now)
    /\ solo' = SoloAfter(solo, key, maxRequests, window, now)
    /\ UNCHANGED <<now, maxRequests, window, loginLog, nonLimVars>>

\* one RateLimiter used with one fixed policy whose refill interval is at
\* least one time unit
LimiterInit ==
    /\ now = 0
    /\ StoreIdle
    /\ visitors = <<>>
    /\ maxRequests \in 1..MaxTokens
    /\ window \in {maxRequests, 2 * maxRequests + 1}
    /\ req = [kind |-> "none", key |-> "", max |-> 0, ok |-> FALSE]
    /\ calls = <<>>
    /\ loginLog = <<>>
    /\ rejected = <<>>
    /\ solo = [visitors |-> <<>>, ok |-> FALSE]
    /\ ServiceIdle
    /\ LockIdle
    /\ CommandsIdle
    /\ ExtIdle

LimiterNext ==
    \/ \E key \in Clients : Request(key)
    \/ cleanupLoop
    \/ Advance

SpecLimiter == LimiterInit /\ [][LimiterNext]_vars

-----------------------------------------------------------------------------
(* Claims about one limiter with one policy, checked under SpecLimiter *)

\* C5: with one fixed policy, every visitor's tokens stay within
\* 0..maxTokens in every reachable state.
C5_TokensWithinBounds ==
    \A k \in DOMAIN visitors :
        0 <= visitors[k].tokens /\ visitors[k].tokens <= maxRequests

\* a record created in hour 0 is refilled a whole hour later: the refill is
\* capped at maxTokens before the request takes its token
C5_Witness ==
    /\ req.kind = "Allow" /\ req.key = "ip1" /\ req.ok
    /\ maxRequests >= 2
    /\ calls["ip1"].first = 0 /\ calls["ip1"].n = maxRequests + 1
    /\ now = Hour
    /\ visitors["ip1"] = Visitor(maxRequests - 1, Hour)

\* the calls made for the record of the client of the last Allow call
LastCalls == calls[req.key]

\* C6 (as stated): the first N calls for a fresh identity are admitted and
\* the (N+1)-th is rejected whenever it is made less than the window W after
\* the first.
C6_RejectedWithinWindow ==
    (req.kind = "Allow" /\ req.key \in DOMAIN calls) =>
        /\ LastCalls.n <= maxRequests => req.ok
        /\ (LastCalls.n = maxRequests + 1 /\ now - LastCalls.first < window)
              => ~req.ok

\* C6 (amended): counting the calls made for an identity since the call that
\* created its visitor record, the first N are admitted and the (N+1)-th is
\* rejected whenever it is made less than one refill interval W/N after the
\* first.
C6_RejectedWithinRefillInterval ==
    (req.kind = "Allow" /\ req.key \in DOMAIN calls) =>
        /\ LastCalls.n <= maxRequests => req.ok
        /\ (LastCalls.n = maxRequests + 1
               /\ now - LastCalls.first < RefillRate(window, maxRequests))
              => ~req.ok

\* the (N+1)-th call, N >= 2, made later than the first and within one refill
\* interval of it, is rejected
C6_Witness ==
    /\ req.kind = "Allow" /\ req.key = "ip1" /\ ~req.ok
    /\ maxRequests >= 2
    /\ LastCalls.n = maxRequests + 1
    /\ now > LastCalls.first
    /\ now - LastCalls.first < RefillRate(window, maxRequests)

\* C13: the first Allow call for an identity with no visitor record is
\* admitted and creates a record with tokens = maxTokens - 1 and
\* lastRefill = now; the other records stay as they were.
C13_FirstCallCreatesRecord ==
    [][\A key \in Clients :
          (Request(key) /\ key \notin DOMAIN visitors) =>
              /\ req'.ok
              /\ DOMAIN visitors' = DOMAIN visitors \cup {key}
              /\ visitors'[key].tokens = maxRequests - 1
              /\ visitors'[key].lastRefill = now
              /\ \A x \in DOMAIN visitors : visitors'[x] = visitors[x]]_vars

\* a client whose record a sweep removed calls again in the second hour and
\* gets a new record stamped with that time, next to another client's record
C13_Witness ==
    /\ req.kind = "Allow" /\ req.key = "ip1" /\ req.ok
    /\ now > Hour
    /\ calls["ip1"] = [first |-> now, n |-> 1]
    /\ visitors["ip1"].tokens = maxRequests - 1
    /\ visitors["ip1"].lastRefill = now
    /\ "ip2" \in DOMAIN visitors

\* C14: for an existing visitor, Allow computes
\* tokensToAdd = floor((now - lastRefill) / refillInterval); if tokensToAdd > 0
\* it sets tokens = min(tokens + tokensToAdd, maxTokens) and lastRefill = now,
\* and if tokensToAdd = 0 it leaves lastRefill unchanged; it then admits and
\* decrements iff tokens > 0.
C14_RefillThenDecide ==
    [][\A key \in Clients :
          (Request(key) /\ key \in DOMAIN visitors) =>
              LET v == visitors[key]
                  tokensToAdd == (now - v.lastRefill) \div RefillRate(window, maxRequests)
                  sum == v.tokens + tokensToAdd
                  tokens == IF tokensToAdd = 0 THEN v.tokens
                            ELSE IF sum < maxRequests THEN sum ELSE maxRequests
                  lastRefill == IF tokensToAdd = 0 THEN v.lastRefill ELSE now
              IN  /\ req'.ok = (tokens > 0)
                  /\ visitors'[key].tokens = IF tokens > 0 THEN tokens - 1 ELSE tokens
                  /\ visitors'[key].lastRefill = lastRefill]_vars

\* an emptied bucket gets a refill smaller than its capacity one or more
\* refill intervals later, and the call that triggers it takes a token
C14_Witness ==
    /\ req.kind = "Allow" /\ req.key = "ip1" /\ req.ok
    /\ maxRequests >= 2
    /\ calls["ip1"].first = 0 /\ calls["ip1"].n = maxRequests + 1
    /\ now > 0 /\ now < Hour
    /\ visitors["ip1"].lastRefill = now
    /\ visitors["ip1"].tokens < maxRequests - 1

\* C15: an Allow call that returns false leaves the visitor's tokens and
\* lastRefill exactly as they were before the call, and leaves every other
\* visitor unchanged.
C15_RejectionChangesNothing ==
    [][\A key \in Clients : (Request(key) /\ ~req'.ok) => visitors' = visitors]_vars

\* a call is rejected at a later instant than the visitor's lastRefill, while
\* another client has a record
C15_Witness ==
    /\ req.kind = "Allow" /\ req.key = "ip1" /\ ~req.ok
    /\ visitors["ip1"].tokens = 0
    /\ now > visitors["ip1"].lastRefill
    /\ "ip2" \in DOMAIN visitors

C17_IdentitiesIndependent ==
    \A a \in Observed :
        /\ a \in DOMAIN visitors <=> a \in DOMAIN solo.visitors
        /\ a \in DOMAIN visitors => visitors[a] = solo.visitors[a]
        /\ (req.kind = "Allow" /\ req.key = a) => req.ok = solo.ok

\* the observed client is rejected while the other client, which called in
\* between, holds a record with a different state
C17_Witness ==
    /\ req.kind = "Allow" /\ req.key = "ip1" /\ ~req.ok
    /\ "ip2" \in DOMAIN visitors
    /\ "ip2" \notin DOMAIN solo.visitors
    /\ visitors["ip2"] # visitors["ip1"]
    /\ visitors["ip2"].lastRefill > calls["ip1"].first
    /\ visitors["ip2"].lastRefill < now

\* C22: each sweep pass removes exactly the visitors whose lastRefill is more
\* than one hour before the pass, and leaves every other visitor's tokens and
\* lastRefill unchanged.
C22_SweepRemovesExactlyStale ==
    [][cleanupLoop =>
          LET kept == {k \in DOMAIN visitors : now - visitors[k].lastRefill <= Hour}
          IN  /\ DOMAIN visitors' = kept
              /\ \A k \in kept : visitors'[k] = visitors[k]]_vars

\* a sweep has removed the observed client's record and kept the record of a
\* client last refilled exactly one hour before
C22_Witness ==
    /\ req.kind = "sweep"
    /\ "ip1" \in DOMAIN rejected /\ "ip1" \notin DOMAIN visitors
    /\ "ip2" \in DOMAIN visitors
    /\ now - visitors["ip2"].lastRefill = Hour

\* how many times x occurs in the sequence e
Count(e, x) == Cardinality({i \in 1..Len(e) : e[i] = x})

\* C26: when Allow rejects, the middleware responds 429 Too Many Requests and
\* never invokes the wrapped handler; when Allow admits, it invokes the
\* wrapped handler exactly once, after the admission decision.
C26_RejectedNeverReachesHandler ==
    req.kind = "Allow" =>
        /\ Count(req.did, "Allow") = 1
        /\ ~req.ok => /\ Count(req.did, "next") = 0
                      /\ Count(req.did, TooManyRequests) = 1
        /\ req.ok => /\ Count(req.did, "next") = 1
                     /\ Count(req.did, TooManyRequests) = 0
                     /\ \E i, j \in 1..Len(req.did) :
                           i < j /\ req.did[i] = "Allow" /\ req.did[j] = "next"

\* a rejected request of a client that was admitted before
C26_Witness ==
    /\ req.kind = "Allow" /\ ~req.ok /\ req.key = "ip1"
    /\ req.did = <<"Allow", TooManyRequests>>
    /\ calls["ip1"].n > maxRequests

-----------------------------------------------------------------------------
(* The route wiring: Routes (routes/routes.go).  One RateLimiter is shared *)
(* by the three tiers and keyed by the client IP alone.                    *)

PublicMax == 100    \* publicLimit: 100 requests per minute
LoginMax == 5       \* loginLimit: 5 requests per minute
CreateMax == 10     \* createLimit: 10 requests per minute

\* the rate-limited routes of the mux, each with the maxRequests of its tier
RouteTier ==
    [p \in {"/", "/category/{id}", "/post/{id}", "/logout", "/mycreatedposts",
            "/mylikedposts", "/post/create"} |-> PublicMax]
    @@ [p \in {"/login", "/signin", "/register", "/signup"} |-> LoginMax]
    @@ [p \in {"/post/createpost", "/post/addcommentREQ", "/post/postreaction",
               "/post/commentreaction"} |-> CreateMax]

LoginRefill == RefillRate(Minute, LoginMax)

\* the client whose requests SpecRoutes follows
RouteClients == {"ip1"}

\* the clock readings of SpecRoutes: one public and one login refill interval
\* after the start, and one past the sweep's staleness hour
RouteInstants ==
    {0, RefillRate(Minute, PublicMax), LoginRefill, Hour + LoginRefill + 1}

\* history: the login admissions less than one login refill interval before t
Recent(log, t) == SelectSeq(log, LAMBDA x : t - x < LoginRefill)

\* history: the log after a login admission at t (the latest LoginMax + 1 kept)
Admitted(log, t) ==
    LET l == Append(log, t)
    IN  IF Len(l) > LoginMax + 1 THEN Tail(l) ELSE l

\* a request of client key to the route path
Route(path, key) ==
    /\ RateLimit(key, RouteTier[path], Minute)
    /\ loginLog' =
          IF RouteTier[path] = LoginMax /\ req'.ok
          THEN [x \in DOMAIN loginLog \cup {key} |->
                   IF x = key
                   THEN Admitted(IF key \in DOMAIN loginLog THEN loginLog[key]
                                 ELSE <<>>, now)
                   ELSE loginLog[x]]
          ELSE loginLog
    /\ UNCHANGED <<now, maxRequests, window, calls, rejected, solo, nonLimVars>>

\* one pass of the cleanupLoop of the routes' limiter
RouteSweep ==
    /\ visitors' = [k \in DOMAIN visitors \ Stale(visitors, now) |-> visitors[k]]
    /\ req' = [kind |-> "sweep", key |-> "", max |-> 0, ok |-> FALSE]
    /\ UNCHANGED <<now, maxRequests, window, calls, loginLog, rejected, solo,
                   nonLimVars>>

\* the clock advances to a later reading
RouteAdvance ==
    /\ \E t \in RouteInstants : t > now /\ now' = t
    /\ loginLog' = [k \in DOMAIN loginLog |-> Recent(loginLog[k], now')]
    /\ req' = [kind |-> "Tick", key |-> "", max |-> 0, ok |-> FALSE]
    /\ UNCHANGED <<visitors, maxRequests, window, calls, rejected, solo, nonLimVars>>

RoutesInit ==
    /\ now = 0
    /\ StoreIdle
    /\ LimiterIdle
    /\ ServiceIdle
    /\ LockIdle
    /\ CommandsIdle
    /\ ExtIdle

RoutesNext ==
    \/ \E path \in DOMAIN RouteTier, key \in RouteClients : Route(path, key)
    \/ RouteSweep
    \/ RouteAdvance

SpecRoutes == RoutesInit /\ [][RoutesNext]_vars

\* C4: under the Routes wiring a client is admitted to the login-tier routes
\* at most LoginMax times within any span shorter than one login refill
\* interval, whatever it sends to the other tiers.
C4_LoginAdmissionsBounded ==
    \A k \in DOMAIN loginLog : Len(loginLog[k]) <= LoginMax

-----------------------------------------------------------------------------
(* The cached query service: CachedPostQueryService                          *)
(* (server/queries/cached_queries.go).  The value of a query result is the  *)
(* version of the underlying data it was read from.                         *)

Digit == <<"0", "1", "2", "3", "4", "5", "6", "7", "8", "9">>

\* fmt's %d: the decimal digits of n
RECURSIVE Itoa(_)
Itoa(n) ==
    IF n < 0 THEN <<"-">> \o Itoa(-n)
    ELSE IF n < 10 THEN <<Digit[n + 1]>>
    ELSE Itoa(n \div 10) \o <<Digit[(n % 10) + 1]>>

\* the literal parts of the cache keys and of the invalidated prefixes
KeyPostsAllUser == <<"p", "o", "s", "t", "s", "_", "a", "l", "l", "_", "u", "s", "e", "r", "_">>
KeyPost == <<"p", "o", "s", "t", "_">>
KeyUser == <<"_", "u", "s", "e", "r", "_">>
KeyPostsCat == <<"p", "o", "s", "t", "s", "_", "c", "a", "t", "_">>
KeyPostsCreatedUser == <<"p", "o", "s", "t", "s", "_", "c", "r", "e", "a", "t", "e", "d", "_", "u", "s", "e", "r", "_">>
KeyPostsLikedUser == <<"p", "o", "s", "t", "s", "_", "l", "i", "k", "e", "d", "_", "u", "s", "e", "r", "_">>
KeyCategoriesAll == <<"c", "a", "t", "e", "g", "o", "r", "i", "e", "s", "_", "a", "l", "l">>
PrefixPosts == <<"p", "o", "s", "t", "s", "_">>

\* the cached reads, each with its arguments
GetAllPosts(userID) == [method |-> "GetAllPosts", args |-> <<userID>>]
GetPostByID(postID, userID) == [method |-> "GetPostByID", args |-> <<postID, userID>>]
GetPostsByCategory(categoryID, userID) ==
    [method |-> "GetPostsByCategory", args |-> <<categoryID, userID>>]
GetUserCreatedPosts(userID) == [method |-> "GetUserCreatedPosts", args |-> <<userID>>]
GetUserLikedPosts(userID) == [method |-> "GetUserLikedPosts", args |-> <<userID>>]
GetAllCategories == [method |-> "GetAllCategories", args |-> <<>>]

\* keys of GetPostByID that leave the user out
CacheKeyNoUser(q) ==
    CASE q.method = "GetAllPosts" -> KeyPostsAllUser \o Itoa(q.args[1])
      [] q.method = "GetPostByID" -> KeyPost \o Itoa(q.args[1])
      [] q.method = "GetPostsByCategory" ->
            KeyPostsCat \o Itoa(q.args[1]) \o KeyUser \o Itoa(q.args[2])
      [] q.method = "GetUserCreatedPosts" -> KeyPostsCreatedUser \o Itoa(q.args[1])
      [] q.method = "GetUserLikedPosts" -> KeyPostsLikedUser \o Itoa(q.args[1])
      [] q.method = "GetAllCategories" -> KeyCategoriesAll

\* cacheKey := fmt.Sprintf(...) of each cached read
CacheKey(q) ==
    CASE q.method = "GetAllPosts" -> KeyPostsAllUser \o Itoa(q.args[1])
      [] q.method = "GetPostByID" ->
            KeyPost \o Itoa(q.args[1]) \o KeyUser \o Itoa(q.args[2])
      [] q.method = "GetPostsByCategory" ->
            KeyPostsCat \o Itoa(q.args[1]) \o KeyUser \o Itoa(q.args[2])
      [] q.method = "GetUserCreatedPosts" -> KeyPostsCreatedUser \o Itoa(q.args[1])
      [] q.method = "GetUserLikedPosts" -> KeyPostsLikedUser \o Itoa(q.args[1])
      [] q.method = "GetAllCategories" -> KeyCategoriesAll

\* the cached reads the service specifications call
Reads == {GetAllPosts(1), GetPostByID(1, 1), GetAllCategories}

\* an invalidation of the plural prefix only
PostPrefixesPlural == <<PrefixPosts>>

\* the prefixes InvalidatePostCache invalidates, in its order
PostPrefixes == <<PrefixPosts, KeyPost>>

\* "post-related cache entries": the keys with one of those prefixes
IsPostKey(k) == \E i \in 1..Len(PostPrefixes) : HasPrefix(k, PostPrefixes[i])

NoError == "nil"
Errors == {"sql: connection is closed", "sql: no rows in result set"}

\* what the underlying query (PostQueryService) can return when the data is
\* at version v: its result, or an error
QueryOutcomes(v) ==
    {[val |-> v, err |-> NoError]} \cup {[val |-> NoData, err |-> e] : e \in Errors}

\* a cached read that stores whatever the query returned, errors included
StoreAfterQueryAlways(m, k, o, t) == SetResult(m, k, o.val, t)

\* the store after a missed cached read got the outcome o from its query:
\* if err != nil { return nil, err }; s.cache.Set(cacheKey, result)
StoreAfterQuery(m, k, o, t) ==
    IF o.err # NoError THEN m ELSE SetResult(m, k, o.val, t)

\* the stores a sequence of Invalidate calls can leave: a panic ends it
RECURSIVE InvalidateSeq(_, _)
InvalidateSeq(m, ps) ==
    IF ps = <<>> THEN { [store |-> m, panicked |-> FALSE] }
    ELSE UNION { IF o.panicked THEN {o} ELSE InvalidateSeq(o.store, Tail(ps)) :
                 o \in InvalidateOutcomes(m, Head(ps)) }

\* a cached read that returns what the store holds for the key, if anything
ReturnedCached(k, v, e, n, qe) ==
    [kind |-> "read", key |-> k,
     val |-> IF k \in DOMAIN items THEN items[k].data ELSE v,
     err |-> e, queries |-> n, queryErr |-> qe, floor |-> hist.committed]

\* what a cached read returns to its caller
Returned(k, v, e, n, qe) ==
    [kind |-> "read", key |-> k, val |-> v, err |-> e, queries |-> n,
     queryErr |-> qe, floor |-> hist.committed]

\* history: the memo after a cached read of k got the outcome o at time t
Memoized(mm, k, o, t) ==
    IF o.err # NoError THEN mm
    ELSE [x \in DOMAIN mm \cup {k} |->
             IF x = k THEN [val |-> o.val, at |-> t] ELSE mm[x]]

\* a cached read (GetAllPosts, GetPostByID, ..., GetAllCategories) run from
\* start to end with nothing else in between
CachedRead(q) ==
    LET k == CacheKey(q)
        g == GetResult(items, k, now)
    IN  /\ \/ /\ g[2]
              /\ res' = Returned(k, g[1], NoError, 0, NoError)
              /\ UNCHANGED <<items, memo>>
           \/ /\ ~g[2]
              /\ \E o \in QueryOutcomes(db) :
                    /\ items' = StoreAfterQuery(items, k, o, now)
                    /\ memo' = Memoized(memo, k, o, now)
                    /\ res' = Returned(k, o.val, o.err, 1, o.err)
        /\ UNCHANGED <<now, ttl, db, rd, wr, hist, nonSvcVars>>

\* a command changes the underlying data
Write ==
    /\ db <= MaxWrites
    /\ db' = db + 1
    /\ UNCHANGED <<now, ttl, items, rd, wr, res, memo, hist, nonSvcVars>>

\* CachedPostQueryService.InvalidatePostCache, run from start to end
InvalidatePostCache ==
    /\ \E o \in InvalidateSeq(items, PostPrefixes) : items' = o.store
    /\ memo' = [k \in {x \in DOMAIN memo : ~IsPostKey(x)} |-> memo[k]]
    /\ UNCHANGED <<now, ttl, db, rd, wr, res, hist, nonSvcVars>>

\* one pass of the cleanup goroutine of the service's cache
cleanupPass ==
    /\ items' = CleanupResult(items, now)
    /\ UNCHANGED <<now, ttl, svcVars, nonSvcVars>>

\* the clock advances
Elapse ==
    /\ now < MaxNow
    /\ now' = now + 1
    /\ UNCHANGED <<ttl, items, svcVars, nonSvcVars>>

CachedInit ==
    /\ now = 0
    /\ ttl \in 1..MaxTTL
    /\ items = <<>>
    /\ op = NoOp
    /\ sets = <<>>
    /\ LimiterIdle
    /\ ServiceIdle
    /\ LockIdle
    /\ CommandsIdle
    /\ ExtIdle

CachedNext ==
    \/ \E q \in Reads : CachedRead(q)
    \/ Write
    \/ InvalidatePostCache
    \/ cleanupPass
    \/ Elapse

\* the cached query service called by one goroutine
SpecCached == CachedInit /\ [][CachedNext]_vars

-----------------------------------------------------------------------------
(* Claims about cached reads made by one goroutine, checked under SpecCached *)

\* C7: a cached read that misses invokes the underlying query exactly once,
\* stores the result under its key and returns it; a later read of the key,
\* before the entry expires or is invalidated, returns the same value without
\* invoking the query.
C7_MissComputesOnceThenHits ==
    [][\A q \in Reads :
          CachedRead(q) =>
              LET k == CacheKey(q)
              IN  /\ ~GetResult(items, k, now)[2] =>
                        /\ res'.queries = 1
                        /\ res'.err = NoError =>
                              /\ res'.val = db
                              /\ k \in DOMAIN items'
                              /\ items'[k] = CacheItem(db, now + ttl)
                  /\ (k \in DOMAIN memo /\ now < memo[k].at + ttl) =>
                        /\ res'.queries = 0
                        /\ res'.err = NoError
                        /\ res'.val = memo[k].val]_vars

\* a read served from the cache at a later time, after the data has changed:
\* it returns the value the earlier read computed
C7_Witness ==
    /\ res.kind = "read" /\ res.queries = 0 /\ res.err = NoError
    /\ res.key \in DOMAIN memo
    /\ res.val = memo[res.key].val
    /\ now > memo[res.key].at
    /\ db > res.val

\* C8: when the underlying query fails, the cached read returns that error,
\* leaves the store as it was, and the next read of the same key invokes the
\* query again.
C8_FailedQueryCachesNothing ==
    [][\A q \in Reads :
          CachedRead(q) =>
              /\ res'.err # NoError =>
                    /\ res'.err = res'.queryErr
                    /\ res'.val = NoData
                    /\ items' = items
              /\ (res.kind = "read" /\ res.err # NoError /\ res.key = CacheKey(q))
                    => res'.queries = 1]_vars

\* a failed read of a key whose expired entry is still in the map
C8_Witness ==
    /\ res.kind = "read" /\ res.err # NoError /\ res.queries = 1
    /\ res.key \in DOMAIN items
    /\ now > items[res.key].expiresAt

-----------------------------------------------------------------------------
(* The cached query service under concurrent request goroutines.  Each     *)
(* step is one critical section of the cache's lock (Get, Set, Invalidate, *)
(* a cleanup pass) or one statement outside it (the underlying query, the  *)
(* write of a command).                                                    *)

\* the request goroutines that read
Procs == {"r1", "r2"}

\* the cached reads they make
RaceReads == {GetAllPosts(1), GetPostByID(1, 1)}

IdleReader == [pc |-> "idle", key |-> <<>>, val |-> NoData, floor |-> 0]

\* the cached reads in flight for key k: past their Get, not yet returned
InFlight(k) == {p \in Procs : rd[p].pc # "idle" /\ rd[p].key = k}

\* if cached, found := s.cache.Get(cacheKey); found { return cached, nil }
ReadGet(p, q) ==
    LET k == CacheKey(q)
        g == GetResult(items, k, now)
    IN  /\ rd[p].pc = "idle"
        /\ IF g[2]
           THEN /\ res' = Returned(k, g[1], NoError, 0, NoError)
                /\ rd' = rd
           ELSE /\ rd' = [rd EXCEPT ![p] = [pc |-> "query", key |-> k, val |-> NoData,
                                            floor |-> hist.committed]]
                /\ res' = res
        /\ hist' = [hist EXCEPT !.flushed = @ \ {k}]
        /\ UNCHANGED <<now, ttl, items, db, wr, memo, nonSvcVars>>

\* result, err := s.queryService.<query>(...); if err != nil { return nil, err }
ReadQuery(p) ==
    /\ rd[p].pc = "query"
    /\ \E o \in QueryOutcomes(db) :
          IF o.err # NoError
          THEN /\ res' = [Returned(rd[p].key, NoData, o.err, 1, o.err)
                             EXCEPT !.floor = rd[p].floor]
               /\ rd' = [rd EXCEPT ![p] = IdleReader]
          ELSE /\ rd' = [rd EXCEPT ![p].pc = "set", ![p].val = o.val]
               /\ res' = res
    /\ UNCHANGED <<now, ttl, items, db, wr, memo, hist, nonSvcVars>>

\* s.cache.Set(cacheKey, result); return result, nil
ReadSet(p) ==
    /\ rd[p].pc = "set"
    /\ items' = SetResult(items, rd[p].key, rd[p].val, now)
    /\ res' = [Returned(rd[p].key, rd[p].val, NoError, 1, NoError)
                  EXCEPT !.floor = rd[p].floor]
    /\ rd' = [rd EXCEPT ![p] = IdleReader]
    /\ UNCHANGED <<now, ttl, db, wr, memo, hist, nonSvcVars>>

\* commandHandler.CreatePost(cmd): the write that precedes InvalidatePostCache
WriterWrite ==
    /\ wr = "idle"
    /\ db <= MaxWrites
    /\ db' = db + 1
    /\ wr' = "written"
    /\ UNCHANGED <<now, ttl, items, rd, res, memo, hist, nonSvcVars>>

\* history: the keys Invalidate(p) flushed with no cached read of them in flight
Flushed(p) == {k \in DOMAIN items : HasPrefix(k, p) /\ InFlight(k) = {}}

\* InvalidatePostCache: s.cache.Invalidate("posts_")
WriterInvalidatePosts ==
    /\ wr = "written"
    /\ \E o \in InvalidateOutcomes(items, PostPrefixes[1]) :
          /\ items' = o.store
          /\ wr' = IF o.panicked THEN "idle" ELSE "posts_done"
          /\ hist' = IF o.panicked THEN hist
                     ELSE [hist EXCEPT !.flushed = @ \cup Flushed(PostPrefixes[1])]
    /\ UNCHANGED <<now, ttl, db, rd, res, memo, nonSvcVars>>

\* InvalidatePostCache: s.cache.Invalidate("post_"), and its return
WriterInvalidatePost ==
    /\ wr = "posts_done"
    /\ \E o \in InvalidateOutcomes(items, PostPrefixes[2]) :
          /\ items' = o.store
          /\ hist' = IF o.panicked THEN hist
                     ELSE [committed |-> db,
                           flushed |-> hist.flushed \cup Flushed(PostPrefixes[2])]
    /\ wr' = "idle"
    /\ UNCHANGED <<now, ttl, db, rd, res, memo, nonSvcVars>>

\* the clock advances
RaceElapse ==
    /\ now < MaxRaceNow
    /\ now' = now + 1
    /\ UNCHANGED <<ttl, items, svcVars, nonSvcVars>>

RaceInit ==
    /\ now = 0
    /\ ttl = 1
    /\ items = <<>>
    /\ op = NoOp
    /\ sets = <<>>
    /\ LimiterIdle
    /\ db = 1
    /\ rd = [p \in Procs |-> IdleReader]
    /\ wr = "idle"
    /\ res = [kind |-> "none"]
    /\ memo = <<>>
    /\ hist = [committed |-> 1, flushed |-> {}]
    /\ LockIdle
    /\ CommandsIdle
    /\ ExtIdle

RaceNext ==
    \/ \E p \in Procs, q \in RaceReads : ReadGet(p, q)
    \/ \E p \in Procs : ReadQuery(p)
    \/ \E p \in Procs : ReadSet(p)
    \/ WriterWrite
    \/ WriterInvalidatePosts
    \/ WriterInvalidatePost
    \/ cleanupPass
    \/ RaceElapse

\* the cached query service called by concurrent goroutines
SpecRace == RaceInit /\ [][RaceNext]_vars

C10_InvalidatedKeyMissesNext ==
    \A k \in hist.flushed : ~GetResult(items, k, now)[2] /\ k \notin DOMAIN items

\* an entry that was live is flushed and no read has started since
C10_Witness ==
    /\ wr = "idle"
    /\ \E k \in hist.flushed :
          /\ res.kind = "read" /\ res.key = k /\ res.err = NoError
          /\ res.val < db
          /\ hist.committed = db

\* C20: concurrent cached reads of the same key that both miss each invoke
\* the underlying query and each Set the result: a miss goes to the query
\* whatever other reads of the key are in flight, every Set replaces the
\* entry with its caller's result (so the entry left is that of the Set
\* serialized last), and each caller returns the value it computed itself.
C20_ConcurrentMissesBothComputeAndSet ==
    [][\A p \in Procs :
          /\ \A q \in RaceReads :
                (ReadGet(p, q) /\ ~GetResult(items, CacheKey(q), now)[2]) =>
                    /\ rd'[p].pc = "query" /\ rd'[p].key = CacheKey(q)
                    /\ items' = items
          /\ ReadQuery(p) =>
                \/ rd'[p].pc = "set" /\ rd'[p].val = db /\ rd'[p].key = rd[p].key
                \/ rd'[p].pc = "idle" /\ res'.err # NoError
          /\ ReadSet(p) =>
                /\ rd[p].key \in DOMAIN items'
                /\ items'[rd[p].key] = CacheItem(rd[p].val, now + ttl)
                /\ \A x \in DOMAIN items \ {rd[p].key} :
                      x \in DOMAIN items' /\ items'[x] = items[x]
                /\ res'.key = rd[p].key /\ res'.val = rd[p].val
                /\ res'.err = NoError /\ res'.queries = 1]_vars

\* two reads of one key both missed and computed different values; the first
\* has stored and returned its own, and the second is about to replace it
C20_Witness ==
    \E p, q \in Procs :
        /\ p # q
        /\ rd[p].pc = "idle"
        /\ rd[q].pc = "set"
        /\ res.kind = "read" /\ res.key = rd[q].key /\ res.queries = 1
        /\ res.err = NoError
        /\ res.key \in DOMAIN items
        /\ items[res.key] = CacheItem(res.val, now + ttl)
        /\ rd[q].val # res.val

-----------------------------------------------------------------------------
(* The cache store under concurrent callers.  Every call takes QueryCache.mu *)
(* (Get shared, Set, Invalidate and the cleanup pass exclusively), works on  *)
(* the map one statement or one loop iteration per step, and releases the    *)
(* lock.  Time unit: any.                                                    *)

\* the request goroutines, each making one call, and the cleanup goroutine
LockProcs == {"g1", "g2"}
Cleaner == "gc"
Goroutines == LockProcs \cup {Cleaner}

LockKeys == { <<"a">>, <<"a", "/", "1">> }
LockData == 2       \* the payload the concurrent Sets store
SeedData == 1       \* the payload of the entries stored before

\* the calls the request goroutines make
GetCall(k) == [fn |-> "Get", key |-> k, data |-> NoData]
SetCall(k, d) == [fn |-> "Set", key |-> k, data |-> d]
InvalidateCall(p) == [fn |-> "Invalidate", key |-> p, data |-> NoData]
cleanupCall == [fn |-> "cleanup", key |-> <<>>, data |-> NoData]
LockCalls ==
    {GetCall(k) : k \in LockKeys} \cup {SetCall(k, LockData) : k \in LockKeys}
        \cup {InvalidateCall(<<"a", "/">>)}

\* the stores the calls can find: entries stored at time 0
Seeds == { [k \in S |-> CacheItem(SeedData, ttl)] : S \in SUBSET LockKeys }

\* the calls that take the lock exclusively
Exclusive == {"Set", "Invalidate", "cleanup"}

NotCalling == [pc |-> "idle", call |-> cleanupCall, todo |-> {}, at |-> 0,
               found |-> FALSE, panicked |-> FALSE, overlapped |-> FALSE]

\* an RLock that does not wait for the writer
RLockableAlways(m) == TRUE

\* sync.RWMutex.RLock returns when no goroutine holds the lock exclusively
RLockable(m) == m.writer = NoGoroutine

\* a Lock that does not wait
LockableAlways(m) == TRUE

\* sync.RWMutex.Lock returns when no goroutine holds the lock at all
Lockable(m) == m.writer = NoGoroutine /\ m.readers = {}

\* the goroutines between taking the lock and releasing it
Holding == {p \in DOMAIN gr : gr[p].pc \in {"inside", "unlock"}}

\* the goroutines executing statements that access the map
Accessing == {p \in DOMAIN gr : gr[p].pc = "inside"}

\* a map access of p that is not ordered with another goroutine's: a data race
\* unless both only read
Unsynchronized(p) ==
    \E q \in Accessing \ {p} :
        gr[p].call.fn \in Exclusive \/ gr[q].call.fn \in Exclusive

\* what a racing access can leave in the map: any entries at all
TornStores ==
    LET Entries == { CacheItem(d, e) : d \in {NoData, SeedData, LockData},
                                      e \in 0..(MaxRaceNow + ttl) }
    IN  UNION { [S -> Entries] : S \in SUBSET LockKeys }

\* the stores a map write of p that was meant to leave m can leave
MapWrite(p, m) == IF Unsynchronized(p) THEN TornStores ELSE {m}

\* a request goroutine starts a call
Call(p, c) ==
    /\ gr[p].pc = "idle"
    /\ LET busy == {q \in LockProcs \ {p} : gr[q].pc \in {"waiting", "inside", "unlock"}}
       IN  gr' = [q \in DOMAIN gr |->
                    IF q = p THEN [NotCalling EXCEPT !.pc = "waiting", !.call = c,
                                                     !.overlapped = busy # {}]
                    ELSE IF q \in busy THEN [gr[q] EXCEPT !.overlapped = TRUE]
                    ELSE gr[q]]
    /\ UNCHANGED <<now, items, mu, seed, nonLockVars>>

\* c.mu.RLock()
RLock(p) ==
    /\ gr[p].pc = "waiting" /\ gr[p].call.fn = "Get"
    /\ RLockable(mu)
    /\ mu' = [mu EXCEPT !.readers = @ \cup {p}]
    /\ gr' = [gr EXCEPT ![p].pc = "inside"]
    /\ UNCHANGED <<now, items, seed, nonLockVars>>

\* c.mu.Lock() of Set and Invalidate; Invalidate's range starts over the keys
\* the map holds
Lock(p) ==
    /\ gr[p].pc = "waiting" /\ gr[p].call.fn \in {"Set", "Invalidate"}
    /\ Lockable(mu)
    /\ mu' = [mu EXCEPT !.writer = p]
    /\ gr' = [gr EXCEPT ![p].pc = "inside",
                        ![p].todo = IF gr[p].call.fn = "Invalidate" THEN DOMAIN items
                                    ELSE {}]
    /\ UNCHANGED <<now, items, seed, nonLockVars>>

\* the body of Get: the lookup and the expiry check
GetBody(p) ==
    /\ gr[p].pc = "inside" /\ gr[p].call.fn = "Get"
    /\ \E f \in IF Unsynchronized(p) THEN BOOLEAN
                ELSE {GetResult(items, gr[p].call.key, now)[2]} :
          gr' = [gr EXCEPT ![p].pc = "unlock", ![p].found = f]
    /\ UNCHANGED <<now, items, mu, seed, nonLockVars>>

\* the body of Set: the map assignment
SetBody(p) ==
    /\ gr[p].pc = "inside" /\ gr[p].call.fn = "Set"
    /\ items' \in MapWrite(p, SetResult(items, gr[p].call.key, gr[p].call.data, now))
    /\ gr' = [gr EXCEPT ![p].pc = "unlock", ![p].at = now]
    /\ UNCHANGED <<now, mu, seed, nonLockVars>>

\* one iteration of Invalidate's loop, over a key the range has not visited:
\* the slice panics for a key shorter than the prefix, a matching key is
\* deleted; the loop ends when no key is left
InvalidateStep(p) ==
    /\ gr[p].pc = "inside" /\ gr[p].call.fn = "Invalidate"
    /\ IF gr[p].todo \cap DOMAIN items = {}
       THEN /\ gr' = [gr EXCEPT ![p].pc = "unlock", ![p].todo = {}]
            /\ items' = items
       ELSE \E k \in gr[p].todo \cap DOMAIN items :
               IF SliceOutOfRange(k, gr[p].call.key)
               THEN /\ gr' = [gr EXCEPT ![p].pc = "unlock", ![p].panicked = TRUE]
                    /\ items' = items
               ELSE /\ gr' = [gr EXCEPT ![p].todo = @ \ {k}]
                    /\ items' \in IF Matches(k, gr[p].call.key)
                                  THEN MapWrite(p, Without(items, {k}))
                                  ELSE {items}
    /\ UNCHANGED <<now, mu, seed, nonLockVars>>

\* defer c.mu.RUnlock()
RUnlock(p) ==
    /\ gr[p].pc = "unlock" /\ gr[p].call.fn = "Get"
    /\ mu' = [mu EXCEPT !.readers = @ \ {p}]
    /\ gr' = [gr EXCEPT ![p].pc = "done"]
    /\ UNCHANGED <<now, items, seed, nonLockVars>>

\* defer c.mu.Unlock() of Set and Invalidate: it runs on a panic as well
Unlock(p) ==
    /\ gr[p].pc = "unlock" /\ gr[p].call.fn \in {"Set", "Invalidate"}
    /\ mu' = [mu EXCEPT !.writer = NoGoroutine]
    /\ gr' = [gr EXCEPT ![p].pc = "done"]
    /\ UNCHANGED <<now, items, seed, nonLockVars>>

\* the ticker fires: the cleanup goroutine asks for the lock
cleanupTick ==
    /\ gr[Cleaner].pc = "idle"
    /\ gr' = [gr EXCEPT ![Cleaner].pc = "waiting"]
    /\ UNCHANGED <<now, items, mu, seed, nonLockVars>>

\* cleanup: c.mu.Lock(); now := time.Now(); the range starts
cleanupLock ==
    /\ gr[Cleaner].pc = "waiting"
    /\ Lockable(mu)
    /\ mu' = [mu EXCEPT !.writer = Cleaner]
    /\ gr' = [gr EXCEPT ![Cleaner].pc = "inside", ![Cleaner].todo = DOMAIN items,
                        ![Cleaner].at = now]
    /\ UNCHANGED <<now, items, seed, nonLockVars>>

\* one iteration of cleanup's loop: an entry expired at the time read under
\* the lock is deleted
cleanupStep ==
    /\ gr[Cleaner].pc = "inside"
    /\ IF gr[Cleaner].todo \cap DOMAIN items = {}
       THEN /\ gr' = [gr EXCEPT ![Cleaner].pc = "unlock", ![Cleaner].todo = {}]
            /\ items' = items
       ELSE \E k \in gr[Cleaner].todo \cap DOMAIN items :
               /\ gr' = [gr EXCEPT ![Cleaner].todo = @ \ {k}]
               /\ items' \in IF After(gr[Cleaner].at, items[k].expiresAt)
                             THEN MapWrite(Cleaner, Without(items, {k}))
                             ELSE {items}
    /\ UNCHANGED <<now, mu, seed, nonLockVars>>

\* cleanup: c.mu.Unlock(), and the wait for the next tick
cleanupUnlock ==
    /\ gr[Cleaner].pc = "unlock"
    /\ mu' = [mu EXCEPT !.writer = NoGoroutine]
    /\ gr' = [gr EXCEPT ![Cleaner].pc = "idle"]
    /\ UNCHANGED <<now, items, seed, nonLockVars>>

\* the clock advances
LockElapse ==
    /\ now < MaxRaceNow
    /\ now' = now + 1
    /\ UNCHANGED <<items, lockVars, nonLockVars>>

LockInit ==
    /\ now = 0
    /\ ttl = 1
    /\ items \in Seeds
    /\ seed = items
    /\ op = NoOp
    /\ sets = <<>>
    /\ LimiterIdle
    /\ ServiceIdle
    /\ mu = [readers |-> {}, writer |-> NoGoroutine]
    /\ gr = [p \in Goroutines |-> NotCalling]
    /\ CommandsIdle
    /\ ExtIdle

LockNext ==
    \/ \E p \in LockProcs, c \in LockCalls : Call(p, c)
    \/ \E p \in LockProcs : RLock(p)
    \/ \E p \in LockProcs : Lock(p)
    \/ \E p \in LockProcs : GetBody(p)
    \/ \E p \in LockProcs : SetBody(p)
    \/ \E p \in LockProcs : InvalidateStep(p)
    \/ \E p \in LockProcs : RUnlock(p)
    \/ \E p \in LockProcs : Unlock(p)
    \/ cleanupTick
    \/ cleanupLock
    \/ cleanupStep
    \/ cleanupUnlock
    \/ LockElapse

\* the cache store called by concurrent goroutines
SpecLock == LockInit /\ [][LockNext]_vars

\* the goroutines holding the lock for a writing call, and for a reading one
WritersInside == {p \in Holding : gr[p].call.fn \in Exclusive}
ReadersInside == Holding \ WritersInside

\* C18: Get holds the lock shared, Set, Invalidate and the cleanup pass hold
\* it exclusively: at most one writer is inside the map, no reader is inside
\* while a writer is, and a cleanup pass never interleaves with a Set or an
\* Invalidate.
C18_WritersExcludeAll ==
    /\ Cardinality(WritersInside) <= 1
    /\ WritersInside # {} => ReadersInside = {}
    /\ Cleaner \in Holding => Holding = {Cleaner}

\* a cleanup pass has deleted one expired entry and has another to visit,
\* while one goroutine waits to Set and the other waits to Invalidate
C18_Witness ==
    /\ gr[Cleaner].pc = "inside"
    /\ gr[Cleaner].todo \cap DOMAIN items # {}
    /\ DOMAIN items # DOMAIN seed
    /\ gr["g1"].pc = "waiting" /\ gr["g1"].call.fn = "Set"
    /\ gr["g2"].pc = "waiting" /\ gr["g2"].call.fn = "Invalidate"

\* the stores the two serial orders of Set(k, v) at time t and Invalidate(p)
\* leave of the store m
SetThenInvalidate(m, k, v, t, p) ==
    { o.store : o \in InvalidateOutcomes(SetResult(m, k, v, t), p) }
InvalidateThenSet(m, k, v, t, p) ==
    { SetResult(o.store, k, v, t) : o \in InvalidateOutcomes(m, p) }

-----------------------------------------------------------------------------
(* The command side: PostCommandHandler.CreatePost                           *)
(* (server/commands/post_commands.go).  A command runs from start to end;    *)
(* each statement that talks to the database can fail.                       *)

\* unicode.IsSpace, for the characters the commands use
Space == {" ", "\t", "\n"}

\* characters whose UTF-8 encoding takes two bytes
TwoByteChars == {"U+00E9"}

\* Go's len(s): the number of bytes of s
len(s) == Len(s) + Cardinality({i \in 1..Len(s) : s[i] \in TwoByteChars})

RECURSIVE TrimLeft(_)
TrimLeft(s) ==
    IF s # <<>> /\ Head(s) \in Space THEN TrimLeft(Tail(s)) ELSE s

RECURSIVE TrimRight(_)
TrimRight(s) ==
    IF s # <<>> /\ s[Len(s)] \in Space THEN TrimRight(SubSeq(s, 1, Len(s) - 1)) ELSE s

\* strings.TrimSpace
TrimSpace(s) == TrimRight(TrimLeft(s))

\* fmt.Errorf(format, args...), and the nil error
Errorf(f, a) == [fmt |-> f, args |-> a]
NilError == Errorf("", <<>>)

\* the rows of the categories table
Categories == {1}

\* the CreatePostCommand values the handler is called with
UserIDs == {0, 1}
\* a title of 200 bytes, the longest that validateCreatePost accepts
X200 ==
    LET X10 == <<"x", "x", "x", "x", "x", "x", "x", "x", "x", "x">>
        X50 == X10 \o X10 \o X10 \o X10 \o X10
    IN  X50 \o X50 \o X50 \o X50
Titles ==
    { <<>>, <<"a", "b">>, <<" ", "a", "b", " ">>, <<"T", "e", "s", "t">>,
      <<"U+00E9", "U+00E9">>, X200, X200 \o <<"x">> }
Contents ==
    { <<>>, <<" ", " ">>, <<"C", "o", "n", "t", "e", "n", "t">>,
      <<"C", "o", "n", "t", "e", "n", "t", " ", "1", "0">> }
CategoryLists == { <<>>, <<1>>, <<2>>, <<1, 2>> }
CreatePostCommand(u, t, c, ids) ==
    [UserID |-> u, Title |-> t, Content |-> c, CategoryIDs |-> ids]
Commands ==
    { CreatePostCommand(u, t, c, ids) :
        u \in UserIDs, t \in Titles, c \in Contents, ids \in CategoryLists }

\* the statement at which the database fails, if any: a category query of
\* validateCreatePost, or a statement of CreatePost's transaction
VerifyFaults == {"none", "verify"}
TxFaults == {"none", "begin", "insert", "lastid", "link", "commit"}

\* validateCreatePost's loop over the category IDs; the first query fails
\* under the fault "verify"
RECURSIVE VerifyCategories(_, _)
VerifyCategories(ids, fault) ==
    IF ids = <<>> THEN NilError
    ELSE IF fault = "verify"
    THEN Errorf("failed to verify category %d: %w", <<Head(ids)>>)
    ELSE IF Head(ids) \notin Categories
    THEN Errorf("category %d does not exist", <<Head(ids)>>)
    ELSE VerifyCategories(Tail(ids), fault)

\* a validation with no minimum title length
validateCreatePostLax(cmd, fault) ==
    LET title == TrimSpace(cmd.Title)
        content == TrimSpace(cmd.Content)
        n == len(title)
    IN  IF cmd.UserID <= 0 THEN Errorf("invalid user ID", <<>>)
        ELSE IF n > 200 THEN Errorf("title must be less than 200 characters", <<>>)
        ELSE IF content = <<>> THEN Errorf("content is required", <<>>)
        ELSE IF len(content) < 10
        THEN Errorf("content must be at least 10 characters", <<>>)
        ELSE IF Len(cmd.CategoryIDs) = 0
        THEN Errorf("at least one category is required", <<>>)
        ELSE VerifyCategories(cmd.CategoryIDs, fault)

\* PostCommandHandler.validateCreatePost
validateCreatePost(cmd, fault) ==
    LET title == TrimSpace(cmd.Title)
        content == TrimSpace(cmd.Content)
        n == len(title)
    IN  IF cmd.UserID <= 0 THEN Errorf("invalid user ID", <<>>)
        ELSE IF title = <<>> THEN Errorf("title is required", <<>>)
        ELSE IF n < 3 THEN Errorf("title must be at least 3 characters", <<>>)
        ELSE IF n > 200 THEN Errorf("title must be less than 200 characters", <<>>)
        ELSE IF content = <<>> THEN Errorf("content is required", <<>>)
        ELSE IF len(content) < 10
        THEN Errorf("content must be at least 10 characters", <<>>)
        ELSE IF Len(cmd.CategoryIDs) = 0
        THEN Errorf("at least one category is required", <<>>)
        ELSE VerifyCategories(cmd.CategoryIDs, fault)

\* *CommandResult, and the nil pointer
CommandResult(success, data, error) ==
    [Success |-> success, Data |-> data, Error |-> error, isNil |-> FALSE]
NilResult == [Success |-> FALSE, Data |-> 0, Error |-> NilError, isNil |-> TRUE]

\* CreatePost(cmd) on the tables ps and ls after validateCreatePost returned
\* verr, the transaction failing at fault: what it returns, the tables it
\* leaves (the deferred Rollback undoes every insert of a transaction that did
\* not commit) and the database failure that the run met
CreatePostResult(cmd, verr, fault, ps, ls) ==
    LET postID == Len(ps) + 1
        failed(f) == [result |-> NilResult, err |-> Errorf(f, <<>>),
                      posts |-> ps, links |-> ls, fault |-> fault]
    IN  IF verr # NilError
        THEN [result |-> CommandResult(FALSE, 0, verr), err |-> NilError,
              posts |-> ps, links |-> ls,
              fault |-> IF verr.fmt = "failed to verify category %d: %w"
                        THEN "verify" ELSE "none"]
        ELSE IF fault = "begin" THEN failed("failed to start transaction: %w")
        ELSE IF fault = "insert" THEN failed("failed to insert post: %w")
        ELSE IF fault = "lastid" THEN failed("failed to get post ID: %w")
        ELSE IF fault = "link" THEN failed("failed to link category %d: %w")
        ELSE IF fault = "commit" THEN failed("failed to commit transaction: %w")
        ELSE [result |-> CommandResult(TRUE, postID, NilError), err |-> NilError,
              fault |-> "none",
              posts |-> Append(ps, [id |-> postID, user_id |-> cmd.UserID,
                                    title |-> cmd.Title, content |-> cmd.Content]),
              links |-> ls \cup {<<postID, cmd.CategoryIDs[i]>> :
                                    i \in 1..Len(cmd.CategoryIDs)}]

\* PostCommandHandler.CreatePost
CreatePost(cmd) ==
    \E vfault \in VerifyFaults :
        LET verr == validateCreatePost(cmd, vfault)
        IN  \E fault \in (IF verr # NilError THEN {"none"} ELSE TxFaults) :
                LET r == CreatePostResult(cmd, verr, fault, posts, links)
                IN  /\ r.posts # posts => Len(posts) < MaxPosts
                    /\ posts' = r.posts
                    /\ links' = r.links
                    /\ reactions' = reactions
                    /\ out' = [kind |-> "CreatePost", cmd |-> cmd, fault |-> r.fault,
                               result |-> r.result, err |-> r.err]
                    /\ UNCHANGED nonCmdVars

CommandsInit ==
    /\ now = 0
    /\ StoreIdle
    /\ LimiterIdle
    /\ ServiceIdle
    /\ LockIdle
    /\ CommandsIdle
    /\ ExtIdle

CommandsNext == \E cmd \in Commands : CreatePost(cmd)

SpecCommands == CommandsInit /\ [][CommandsNext]_vars

\* C27: CreatePost returns Success = true for every command with UserID > 0,
\* a title of 3 to 200 characters, non-empty content and at least one
\* category ID, all existing, when no database statement fails (the
\* documented test: Title "Test", Content "Content", CategoryIDs [1]); the
\* post and its category links are then stored.
C27_ValidCommandSucceeds ==
    (/\ out.kind = "CreatePost"
     /\ out.fault = "none"
     /\ out.cmd.UserID > 0
     /\ Len(TrimSpace(out.cmd.Title)) \in 3..200
     /\ TrimSpace(out.cmd.Content) # <<>>
     /\ Len(out.cmd.CategoryIDs) >= 1
     /\ \A i \in 1..Len(out.cmd.CategoryIDs) : out.cmd.CategoryIDs[i] \in Categories)
        => /\ ~out.result.isNil
           /\ out.result.Success
           /\ \E i \in 1..Len(posts) :
                 /\ posts[i].title = out.cmd.Title
                 /\ posts[i].id = out.result.Data

-----------------------------------------------------------------------------
(* The cache keys of the service and its two invalidation helpers,           *)
(* InvalidatePostCache and InvalidateUserCache, called by one goroutine      *)
(* within one TTL: entries leave the cache by invalidation only.             *)

PrefixUser == <<"u", "s", "e", "r", "_">>

\* the prefixes InvalidateUserCache(userID) invalidates, in its order
UserPrefixes(userID) ==
    << PrefixUser \o Itoa(userID),
       KeyPostsCreatedUser \o Itoa(userID),
       KeyPostsLikedUser \o Itoa(userID) >>

\* the users whose entries are cached and invalidated
KeyUsers == {1, 10}

\* the cached reads that belong to user u
UserReads(u) == {GetUserCreatedPosts(u), GetUserLikedPosts(u)}

\* the cached reads of posts, and all the cached reads called here
PostReads ==
    UNION {UserReads(u) : u \in KeyUsers}
        \cup {GetAllPosts(1), GetPostByID(1, 1), GetPostsByCategory(1, 1)}
KeyReads == PostReads \cup {GetAllCategories}

\* the cached reads of posts over a range of post, category and user IDs
KeyParams == {-1, 0, 1, 9, 10, 99, 100}
PostQueries ==
    {GetAllPosts(u) : u \in KeyParams}
        \cup {GetUserCreatedPosts(u) : u \in KeyParams}
        \cup {GetUserLikedPosts(u) : u \in KeyParams}
        \cup {GetPostByID(p, u) : p \in KeyParams, u \in KeyParams}
        \cup {GetPostsByCategory(c, u) : c \in KeyParams, u \in KeyParams}

\* CachedPostQueryService.InvalidateUserCache, run from start to end
InvalidateUserCache(userID) ==
    /\ \E o \in InvalidateSeq(items, UserPrefixes(userID)) :
          /\ items' = o.store
          /\ memo' = [k \in DOMAIN memo \cap DOMAIN o.store |-> memo[k]]
          /\ res' = [kind |-> "InvalidateUserCache", userID |-> userID,
                     panicked |-> o.panicked]
    /\ UNCHANGED <<now, ttl, db, rd, wr, hist, nonSvcVars>>

KeysInit ==
    /\ now = 0
    /\ ttl \in 1..MaxTTL
    /\ items = <<>>
    /\ op = NoOp
    /\ sets = <<>>
    /\ LimiterIdle
    /\ ServiceIdle
    /\ LockIdle
    /\ CommandsIdle
    /\ ExtIdle

KeysNext ==
    \/ \E q \in KeyReads : CachedRead(q)
    \/ InvalidatePostCache
    \/ \E u \in KeyUsers : InvalidateUserCache(u)

SpecKeys == KeysInit /\ [][KeysNext]_vars

\* C29: InvalidateUserCache(u) completes and removes exactly the cached
\* created-posts and liked-posts entries of user u; every entry of another
\* user (user 10 when u = 1 included) and every entry of any other query
\* stays in the cache.
C29_UserInvalidationExact ==
    [][\A u \in KeyUsers :
          InvalidateUserCache(u) =>
              /\ ~res'.panicked
              /\ DOMAIN items' = DOMAIN items \ {CacheKey(q) : q \in UserReads(u)}
              /\ \A k \in DOMAIN items' : items'[k] = items[k]]_vars

\* the pairs of different cached reads that build the same key
KeyCollisions ==
    LET Q == PostQueries \cup {GetAllCategories}
    IN  {c \in Q \X Q : c[1] # c[2] /\ CacheKey(c[1]) = CacheKey(c[2])}

\* C31: cache key construction is injective: two cached reads build the same
\* key only if they are the same method with the same parameter values, so a
\* cached read served from the store gets an entry that only the same read
\* can have stored.
C31_CacheKeysInjective ==
    [][\A q \in KeyReads :
          (CachedRead(q) /\ res'.queries = 0) =>
              /\ KeyCollisions = {}
              /\ \A q2 \in KeyReads : CacheKey(q2) = res'.key => q2 = q
              /\ res'.val = memo[CacheKey(q)].val]_vars

\* GetPostByID(1, 1) is served from the store while the entries of both
\* users' created posts and of the category page are cached next to it
C31_Witness ==
    /\ res.kind = "read" /\ res.queries = 0 /\ res.err = NoError
    /\ res.key = CacheKey(GetPostByID(1, 1))
    /\ {CacheKey(GetUserCreatedPosts(1)), CacheKey(GetUserCreatedPosts(10)),
        CacheKey(GetPostsByCategory(1, 1)), CacheKey(GetAllPosts(1))}
            \subseteq DOMAIN items

\* C30: InvalidatePostCache removes every entry written by GetAllPosts,
\* GetPostByID, GetPostsByCategory, GetUserCreatedPosts and GetUserLikedPosts,
\* whatever their parameters (each such key carries one of the two
\* invalidated prefixes and is no shorter than either), and leaves the
\* categories_all entry as it was.
C30_PostInvalidationSweepsPostKeys ==
    [][InvalidatePostCache =>
          /\ \A q \in PostReads : CacheKey(q) \notin DOMAIN items'
          /\ \A q \in PostQueries :
                /\ IsPostKey(CacheKey(q))
                /\ \A i \in 1..Len(PostPrefixes) :
                      ~SliceOutOfRange(CacheKey(q), PostPrefixes[i])
          /\ ~IsPostKey(KeyCategoriesAll)
          /\ KeyCategoriesAll \in DOMAIN items =>
                /\ KeyCategoriesAll \in DOMAIN items'
                /\ items'[KeyCategoriesAll] = items[KeyCategoriesAll]]_vars

\* GetAllPosts(1) was computed and stored last, categories_all is still
\* cached, and no cached read of posts has an entry any more: within one TTL
\* only InvalidatePostCache removes the posts_all_user_1 entry
C30_Witness ==
    /\ res.kind = "read" /\ res.err = NoError /\ res.queries = 1
    /\ res.key = CacheKey(GetAllPosts(1))
    /\ DOMAIN items = {KeyCategoriesAll}
    /\ DOMAIN memo = {KeyCategoriesAll}

-----------------------------------------------------------------------------
(* RateLimiter.Allow called by concurrent request goroutines for one         *)
(* identity.  Each step is one statement group of Allow: rl.mu.Lock(), the   *)
(* lookup of the visitor with the clock reading, the refill and decision     *)
(* written back, and the deferred rl.mu.Unlock().  Time unit: half a refill  *)
(* interval.                                                                 *)

\* the request goroutines that call Allow
AllowProcs == {"h1", "h2", "h3"}
AllowKey == "ip1"

\* a goroutine that has not called Allow
NotInAllow == [pc |-> "idle", seen |-> <<>>, at |-> 0, ok |-> FALSE]

\* what a step of an Allow call leaves alone
nonAllowVars == <<ttl, items, op, sets, maxRequests, window, req, calls, loginLog,
                  rejected, solo, svcVars, seed, cmdVars, extVars>>

\* a request goroutine calls Allow(AllowKey, maxRequests, window / maxRequests)
AllowCall(p) ==
    /\ gr[p].pc = "idle"
    /\ gr' = [gr EXCEPT ![p].pc = "waiting"]
    /\ UNCHANGED <<now, visitors, mu, nonAllowVars>>

\* rl.mu.Lock()
AllowLock(p) ==
    /\ gr[p].pc = "waiting"
    /\ Lockable(mu)
    /\ mu' = [mu EXCEPT !.writer = p]
    /\ gr' = [gr EXCEPT ![p].pc = "inside"]
    /\ UNCHANGED <<now, visitors, nonAllowVars>>

\* v, exists := rl.visitors[key]; time.Now()
AllowLoad(p) ==
    /\ gr[p].pc = "inside"
    /\ gr' = [gr EXCEPT ![p].pc = "loaded", ![p].seen = visitors, ![p].at = now]
    /\ UNCHANGED <<now, visitors, mu, nonAllowVars>>

\* the rest of Allow's body on the visitor it looked up: the new visitor, or
\* the refill and the decision, written to the map entry of the key
AllowStore(p) ==
    /\ gr[p].pc = "loaded"
    /\ LET r == AllowResult(gr[p].seen, AllowKey, maxRequests,
                            RefillRate(window, maxRequests), gr[p].at)
       IN  /\ visitors' = [x \in DOMAIN visitors \cup {AllowKey} |->
                              IF x = AllowKey THEN r.visitors[AllowKey] ELSE visitors[x]]
           /\ gr' = [gr EXCEPT ![p].pc = "unlock", ![p].ok = r.ok]
    /\ UNCHANGED <<now, mu, nonAllowVars>>

\* defer rl.mu.Unlock(); Allow returns
AllowUnlock(p) ==
    /\ gr[p].pc = "unlock"
    /\ mu' = [mu EXCEPT !.writer = NoGoroutine]
    /\ gr' = [gr EXCEPT ![p].pc = "done"]
    /\ UNCHANGED <<now, visitors, nonAllowVars>>

\* the clock advances
AllowElapse ==
    /\ now < MaxRaceNow
    /\ now' = now + 1
    /\ UNCHANGED <<visitors, mu, gr, nonAllowVars>>

\* a visitor of the identity holding k tokens, last refilled now, and no call
\* in progress; the refill interval is two time units
AllowInit ==
    /\ now = 0
    /\ StoreIdle
    /\ maxRequests \in 1..MaxTokens
    /\ window = 2 * maxRequests
    /\ \E k \in 0..(maxRequests - 1) :
          visitors = [x \in {AllowKey} |-> Visitor(k, 0)]
    /\ seed = visitors
    /\ req = [kind |-> "none", key |-> "", max |-> 0, ok |-> FALSE]
    /\ calls = <<>>
    /\ loginLog = <<>>
    /\ rejected = <<>>
    /\ solo = [visitors |-> <<>>, ok |-> FALSE]
    /\ ServiceIdle
    /\ mu = [readers |-> {}, writer |-> NoGoroutine]
    /\ gr = [p \in AllowProcs |-> NotInAllow]
    /\ CommandsIdle
    /\ ExtIdle

AllowNext ==
    \/ \E p \in AllowProcs : AllowCall(p)
    \/ \E p \in AllowProcs : AllowLock(p)
    \/ \E p \in AllowProcs : AllowLoad(p)
    \/ \E p \in AllowProcs : AllowStore(p)
    \/ \E p \in AllowProcs : AllowUnlock(p)
    \/ AllowElapse

SpecAllow == AllowInit /\ [][AllowNext]_vars

\* C32: Allow is atomic per call: when n Allow calls for one identity run
\* concurrently on a visitor holding k tokens and no refill interval elapses,
\* exactly min(n, k) of them are admitted and tokens ends at k - min(n, k);
\* in no interleaving are more calls admitted than tokens were available.
C32_ConcurrentAllowsSpendEachTokenOnce ==
    LET k == seed[AllowKey].tokens
        returned == {p \in AllowProcs : gr[p].pc = "done"}
        decided == {p \in AllowProcs : gr[p].pc \in {"unlock", "done"}}
        admitted(S) == Cardinality({p \in S : gr[p].ok})
        quiet == \A p \in AllowProcs : gr[p].pc \in {"idle", "done"}
    IN  now - seed[AllowKey].lastRefill < RefillRate(window, maxRequests) =>
            /\ admitted(decided) <= k
            /\ quiet =>
                  /\ admitted(returned) = min(Cardinality(returned), k)
                  /\ visitors[AllowKey].tokens = k - min(Cardinality(returned), k)

\* within the refill interval, on a visitor that held two tokens: one call
\* has returned admitted, a second still holds the lock after taking the last
\* token, and a third, called meanwhile, waits for the lock
C32_Witness ==
    /\ seed[AllowKey].tokens = 2
    /\ now = 1
    /\ \E p, q, w \in AllowProcs :
          /\ gr[p].pc = "done" /\ gr[p].ok
          /\ gr[q].pc = "unlock" /\ gr[q].ok /\ mu.writer = q
          /\ gr[w].pc = "waiting"
    /\ visitors[AllowKey].tokens = 0

-----------------------------------------------------------------------------
(* The token bucket of one identity over time: RateLimiter.Allow called      *)
(* through RateLimit under one policy, and RateLimiter.cleanupLoop, by one   *)
(* goroutine at a time.  Time unit as in SpecLimiter (600 ms).               *)

BucketKey == "ip1"

\* the clock readings: the times 0..MaxSpan, one hour after 0, a tick later,
\* and two hours after 0
BucketInstants == (0..MaxSpan) \cup {Hour, Hour + 1, 2 * Hour}

\* history: the bucket record after an Allow call at time t found the
\* visitors vs and returned r; sh is what the never-swept limiter returns
BucketAfter(b, vs, r, sh, maxTokens, t) ==
    LET existed == BucketKey \in DOMAIN vs
        spent == IF r.ok THEN 1 ELSE 0
        refilled == r.visitors[BucketKey].tokens + spent
    IN  [b EXCEPT
           !.n = IF r.ok /\ t >= b.from THEN @ + 1 ELSE @,
           !.created = IF existed THEN @ ELSE t,
           !.credited = IF existed THEN @ + (refilled - vs[BucketKey].tokens) ELSE 0,
           !.capped = IF existed THEN @ \/ refilled = maxTokens ELSE FALSE,
           !.shadow = sh.visitors,
           !.shadowOk = sh.ok]

\* a request of the identity handled by the RateLimit middleware
BucketRequest ==
    /\ RateLimit(BucketKey, maxRequests, window)
    /\ bucket' = BucketAfter(bucket, visitors,
                     AllowResult(visitors, BucketKey, maxRequests,
                                 RefillRate(window, maxRequests), now),
                     AllowResult(bucket.shadow, BucketKey, maxRequests,
                                 RefillRate(window, maxRequests), now),
                     maxRequests, now)
    /\ UNCHANGED <<now, maxRequests, window, calls, loginLog, rejected, solo,
                   ttl, items, op, sets, svcVars, lockVars, cmdVars, tplVars, migVars>>

\* one pass of RateLimiter.cleanupLoop
BucketSweep ==
    /\ visitors' = [k \in DOMAIN visitors \ Stale(visitors, now) |-> visitors[k]]
    /\ bucket' = [bucket EXCEPT !.swept = @ \/ BucketKey \in Stale(visitors, now)]
    /\ req' = [kind |-> "sweep", key |-> "", max |-> 0, ok |-> FALSE]
    /\ UNCHANGED <<now, maxRequests, window, calls, loginLog, rejected, solo,
                   ttl, items, op, sets, svcVars, lockVars, cmdVars, tplVars, migVars>>

\* the clock advances to a later reading
BucketAdvance ==
    /\ \E t \in BucketInstants : t > now /\ now' = t
    /\ req' = [kind |-> "Tick", key |-> "", max |-> 0, ok |-> FALSE]
    /\ UNCHANGED <<visitors, bucket, maxRequests, window, calls, loginLog, rejected,
                   solo, ttl, items, op, sets, svcVars, lockVars, cmdVars, tplVars,
                   migVars>>

\* one limiter with one policy whose window is at most one hour; admissions
\* are counted from any one of the times
BucketInit ==
    /\ now = 0
    /\ StoreIdle
    /\ visitors = <<>>
    /\ maxRequests \in 1..MaxTokens
    /\ window \in {maxRequests, 2 * maxRequests + 1, Hour}
    /\ req = [kind |-> "none", key |-> "", max |-> 0, ok |-> FALSE]
    /\ calls = <<>>
    /\ loginLog = <<>>
    /\ rejected = <<>>
    /\ solo = [visitors |-> <<>>, ok |-> FALSE]
    /\ ServiceIdle
    /\ LockIdle
    /\ CommandsIdle
    /\ \E a \in 0..MaxSpan :
          bucket = [from |-> a, n |-> 0, created |-> 0, credited |-> 0,
                    capped |-> FALSE, shadow |-> <<>>, shadowOk |-> FALSE,
                    swept |-> FALSE]
    /\ TemplatesIdle
    /\ MigratorIdle

BucketNext ==
    \/ BucketRequest
    \/ BucketSweep
    \/ BucketAdvance

SpecBucket == BucketInit /\ [][BucketNext]_vars

\* C33: for one identity under a fixed policy (maxTokens = N >= 1, refill
\* interval r), the number of admissions in any time span of length T is at
\* most N + floor(T / r), for any sequence of call times.
C33_AdmissionsBoundedInEverySpan ==
    now >= bucket.from =>
        bucket.n <= maxRequests
                      + ((now - bucket.from) \div (window \div maxRequests))

\* the bound is met: counted from time 1, N + 1 admissions within a span
\* shorter than two refill intervals of two time units, the last one at the
\* end of the span
C33_Witness ==
    /\ window \div maxRequests = 2
    /\ bucket.from = 1 /\ now = 3
    /\ req.kind = "Allow" /\ req.ok
    /\ bucket.n = maxRequests + 1

\* C34: refill credits one token per elapsed refill interval with no time
\* lost: for an identity whose bucket never reaches the cap, the tokens
\* credited by the time t of an Allow call are floor((t - creation time) /
\* refillInterval), whatever the times of the calls in between.
C34_RefillLosesNoTime ==
    (/\ req.kind = "Allow"
     /\ BucketKey \in DOMAIN visitors
     /\ ~bucket.capped)
        => bucket.credited = (now - bucket.created) \div (window \div maxRequests)

\* C35: under a fixed policy whose window is at most the one-hour staleness
\* threshold, the removal of a visitor by a sweep never changes a later Allow
\* decision: every decision is the one made in a run of the same calls in
\* which no sweep ever runs.
C35_SweepNeverChangesDecisions ==
    req.kind = "Allow" => req.ok = bucket.shadowOk

\* the identity's visitor was swept, created again by a later call, and has by
\* now used all its tokens: a call is rejected, as in the run never swept,
\* whose record was last refilled at the same time
C35_Witness ==
    /\ bucket.swept
    /\ maxRequests >= 2
    /\ req.kind = "Allow" /\ ~req.ok /\ ~bucket.shadowOk
    /\ bucket.created >= Hour
    /\ visitors[BucketKey] = bucket.shadow[BucketKey]

-----------------------------------------------------------------------------
(* The template cache: utils.RenderTemplate called by concurrent request     *)
(* goroutines.  Each step is one statement of RenderTemplate that touches    *)
(* cacheMutex or templateCache; mu is cacheMutex.  A parsed template is      *)
(* identified by the number of the successful parse that made it.            *)

\* the request goroutines that render, and the templates they render
TplProcs == {"r1", "r2"}
TplNames == {"home", "error"}

\* a goroutine that is not in RenderTemplate
NotRendering == [pc |-> "idle", tmpl |-> "", exists |-> FALSE, t |-> 0]

\* what a step of RenderTemplate leaves alone
nonTplVars == <<now, ttl, items, op, sets, limVars, svcVars, seed, cmdVars, bucket,
                migVars>>

\* a second lookup that never finds the template
RecheckedNever(cache, name) == FALSE

\* t, exists = templateCache[tmpl] after cacheMutex.Lock(): the double check
Rechecked(cache, name) == name \in DOMAIN cache

\* a request goroutine calls RenderTemplate(..., tmpl, ...)
TplCall(p, name) ==
    /\ gr[p].pc = "idle"
    /\ gr' = [gr EXCEPT ![p] = [NotRendering EXCEPT !.pc = "rlock", !.tmpl = name]]
    /\ UNCHANGED <<mu, templateCache, parses, nonTplVars>>

\* cacheMutex.RLock()
TplRLock(p) ==
    /\ gr[p].pc = "rlock"
    /\ RLockable(mu)
    /\ mu' = [mu EXCEPT !.readers = @ \cup {p}]
    /\ gr' = [gr EXCEPT ![p].pc = "read"]
    /\ UNCHANGED <<templateCache, parses, nonTplVars>>

\* t, exists := templateCache[tmpl]
TplRead(p) ==
    /\ gr[p].pc = "read"
    /\ gr' = [gr EXCEPT ![p].pc = "runlock",
                        ![p].exists = gr[p].tmpl \in DOMAIN templateCache,
                        ![p].t = IF gr[p].tmpl \in DOMAIN templateCache
                                 THEN templateCache[gr[p].tmpl] ELSE 0]
    /\ UNCHANGED <<mu, templateCache, parses, nonTplVars>>

\* cacheMutex.RUnlock(); if !exists { ... }
TplRUnlock(p) ==
    /\ gr[p].pc = "runlock"
    /\ mu' = [mu EXCEPT !.readers = @ \ {p}]
    /\ gr' = [gr EXCEPT ![p].pc = IF gr[p].exists THEN "execute" ELSE "lock"]
    /\ UNCHANGED <<templateCache, parses, nonTplVars>>

\* cacheMutex.Lock()
TplLock(p) ==
    /\ gr[p].pc = "lock"
    /\ Lockable(mu)
    /\ mu' = [mu EXCEPT !.writer = p]
    /\ gr' = [gr EXCEPT ![p].pc = "locked"]
    /\ UNCHANGED <<templateCache, parses, nonTplVars>>

\* the double check and, if the template is still missing, ParseTemplates,
\* which can fail, and the insertion of the parsed template
TplParse(p) ==
    LET name == gr[p].tmpl
    IN  /\ gr[p].pc = "locked"
        /\ IF Rechecked(templateCache, name)
           THEN /\ gr' = [gr EXCEPT ![p].pc = "unlock", ![p].exists = TRUE,
                                    ![p].t = templateCache[name]]
                /\ UNCHANGED <<templateCache, parses>>
           ELSE \/ /\ gr' = [gr EXCEPT ![p].pc = "unlockErr"]
                   /\ UNCHANGED <<templateCache, parses>>
                \/ LET made == (IF name \in DOMAIN parses THEN parses[name] ELSE 0) + 1
                   IN  /\ parses' = [x \in DOMAIN parses \cup {name} |->
                                        IF x = name THEN made ELSE parses[x]]
                       /\ templateCache' = [x \in DOMAIN templateCache \cup {name} |->
                                               IF x = name THEN made
                                               ELSE templateCache[x]]
                       /\ gr' = [gr EXCEPT ![p].pc = "unlock", ![p].t = made]
        /\ UNCHANGED <<mu, nonTplVars>>

\* cacheMutex.Unlock(), after the insertion or the double check, or before
\* return err
TplUnlock(p) ==
    /\ gr[p].pc \in {"unlock", "unlockErr"}
    /\ mu' = [mu EXCEPT !.writer = NoGoroutine]
    /\ gr' = [gr EXCEPT ![p].pc = IF gr[p].pc = "unlock" THEN "execute" ELSE "failed"]
    /\ UNCHANGED <<templateCache, parses, nonTplVars>>

\* t.ExecuteTemplate(...) and the return, or the return of the parse error
TplReturn(p) ==
    /\ gr[p].pc \in {"execute", "failed"}
    /\ gr' = [gr EXCEPT ![p] = NotRendering]
    /\ UNCHANGED <<mu, templateCache, parses, nonTplVars>>

TemplatesInit ==
    /\ now = 0
    /\ StoreIdle
    /\ LimiterIdle
    /\ ServiceIdle
    /\ mu = [readers |-> {}, writer |-> NoGoroutine]
    /\ gr = [p \in TplProcs |-> NotRendering]
    /\ seed = <<>>
    /\ CommandsIdle
    /\ BucketIdle
    /\ TemplatesIdle
    /\ MigratorIdle

TemplatesNext ==
    \/ \E p \in TplProcs, name \in TplNames : TplCall(p, name)
    \/ \E p \in TplProcs : TplRLock(p)
    \/ \E p \in TplProcs : TplRead(p)
    \/ \E p \in TplProcs : TplRUnlock(p)
    \/ \E p \in TplProcs : TplLock(p)
    \/ \E p \in TplProcs : TplParse(p)
    \/ \E p \in TplProcs : TplUnlock(p)
    \/ \E p \in TplProcs : TplReturn(p)

SpecTemplates == TemplatesInit /\ [][TemplatesNext]_vars

\* C36: under any interleaving of concurrent RenderTemplate calls for one
\* template name, the template is successfully parsed and inserted into
\* templateCache at most once, and all later calls use that cached template;
\* a failed parse inserts nothing and releases the write lock, so that a
\* later call can parse again.
C36_TemplateParsedAtMostOnce ==
    /\ \A name \in DOMAIN parses : parses[name] = 1
    /\ DOMAIN templateCache = DOMAIN parses
    /\ \A p \in TplProcs :
          /\ gr[p].pc = "execute" =>
                /\ gr[p].tmpl \in DOMAIN templateCache
                /\ gr[p].t = templateCache[gr[p].tmpl]
          /\ gr[p].pc = "failed" => mu.writer # p
          /\ gr[p].pc = "unlockErr" => gr[p].tmpl \notin DOMAIN templateCache

\* one call has returned a parse error for "home"; the other call, which had
\* also missed "home", has parsed it since and is about to execute it
C36_Witness ==
    /\ gr["r1"].pc = "failed" /\ gr["r1"].tmpl = "home"
    /\ gr["r2"].pc = "execute" /\ gr["r2"].tmpl = "home" /\ ~gr["r2"].exists
    /\ "home" \in DOMAIN parses /\ parses["home"] = 1
    /\ templateCache["home"] = gr["r2"].t

-----------------------------------------------------------------------------
(* The migrator: Migrator.GetPendingMigrations and Migrator.Up               *)
(* (server/migrations/migrator.go), run at startup by one goroutine.  A      *)
(* migration is identified by its version, the part of its file name before  *)
(* the first "_" ("001_create_users.up.sql" -> "001"); the files of a        *)
(* directory have different versions.                                        *)

\* the version of the i-th migration file: three digits
Version(i) == (IF i < 10 THEN <<"0", "0">> ELSE <<"0">>) \o Itoa(i)

\* the contents the migrations directory can have: the first n files
Dirs == { {Version(i) : i \in 1..n} : n \in 1..MaxMigrations }

\* Go's < on strings of digits: byte-wise, a proper prefix first
RECURSIVE StringLess(_, _)
StringLess(a, b) ==
    IF b = <<>> THEN FALSE
    ELSE IF a = <<>> THEN TRUE
    ELSE IF Head(a) # Head(b)
    THEN \E i, j \in 1..Len(Digit) : i < j /\ Digit[i] = Head(a) /\ Digit[j] = Head(b)
    ELSE StringLess(Tail(a), Tail(b))

\* the versions of S, latest first
RECURSIVE SortDescending(_)
SortDescending(S) ==
    IF S = {} THEN <<>>
    ELSE LET last == CHOOSE x \in S : \A y \in S \ {x} : StringLess(y, x)
         IN  <<last>> \o SortDescending(S \ {last})

\* sort.Slice(pending, func(i, j) { return pending[i].Version < pending[j].Version })
RECURSIVE SortByVersion(_)
SortByVersion(S) ==
    IF S = {} THEN <<>>
    ELSE LET first == CHOOSE x \in S : \A y \in S \ {x} : StringLess(x, y)
         IN  <<first>> \o SortByVersion(S \ {first})

\* where an Up call fails, if anywhere: while it collects the pending
\* migrations, or at a statement of the transaction of its i-th migration
NoFault == [at |-> 0, stmt |-> "none"]
UpFaults ==
    {NoFault}
        \cup {[at |-> 0, stmt |-> st] : st \in {"query", "readdir", "readfile"}}
        \cup {[at |-> i, stmt |-> st] :
                 i \in 1..MaxMigrations, st \in {"begin", "exec", "record", "commit"}}

\* Migrator.GetPendingMigrations on the directory dir with the applied
\* versions sm
GetPendingMigrations(dir, sm, fault) ==
    IF fault.stmt = "query"
    THEN [pending |-> <<>>, err |-> "failed to query migrations: %w"]
    ELSE IF fault.stmt = "readdir"
    THEN [pending |-> <<>>, err |-> "failed to read migrations directory: %w"]
    ELSE IF fault.stmt = "readfile" /\ dir \ sm # {}
    THEN [pending |-> <<>>, err |-> "failed to read migration %s: %w"]
    ELSE [pending |-> SortByVersion(dir \ sm), err |-> NoError]

\* a migration whose SQL is executed outside the transaction that records it
ApplyResultNoTx(v, stmt, sm, tb) ==
    IF stmt = "begin" THEN [sm |-> sm, tb |-> tb, err |-> "failed to start transaction: %w"]
    ELSE IF stmt = "exec" THEN [sm |-> sm, tb |-> tb, err |-> "failed to apply migration %s: %w"]
    ELSE IF stmt = "record"
    THEN [sm |-> sm, tb |-> tb \cup {v}, err |-> "failed to record migration %s: %w"]
    ELSE IF stmt = "commit"
    THEN [sm |-> sm, tb |-> tb \cup {v}, err |-> "failed to commit migration %s: %w"]
    ELSE [sm |-> sm \cup {v}, tb |-> tb \cup {v}, err |-> NoError]

\* one iteration of Up's loop, for the migration v, failing at stmt if at all:
\* Begin, tx.Exec(UpSQL), the INSERT INTO schema_migrations, Commit; the
\* rows sm of schema_migrations and the schema tb it leaves
ApplyResult(v, stmt, sm, tb) ==
    IF stmt = "begin" THEN [sm |-> sm, tb |-> tb, err |-> "failed to start transaction: %w"]
    ELSE IF stmt = "exec" THEN [sm |-> sm, tb |-> tb, err |-> "failed to apply migration %s: %w"]
    ELSE IF stmt = "record"
    THEN [sm |-> sm, tb |-> tb, err |-> "failed to record migration %s: %w"]
    ELSE IF stmt = "commit"
    THEN [sm |-> sm, tb |-> tb, err |-> "failed to commit migration %s: %w"]
    ELSE [sm |-> sm \cup {v}, tb |-> tb \cup {v}, err |-> NoError]

\* Up's loop over pending from its i-th element on
RECURSIVE UpLoop(_, _, _, _, _)
UpLoop(pending, i, fault, sm, tb) ==
    IF i > Len(pending)
    THEN [sm |-> sm, tb |-> tb, applied |-> <<>>, failed |-> <<>>, err |-> NoError]
    ELSE LET r == ApplyResult(pending[i], IF fault.at = i THEN fault.stmt ELSE "none",
                              sm, tb)
         IN  IF r.err # NoError
             THEN [sm |-> r.sm, tb |-> r.tb, applied |-> <<>>, failed |-> pending[i],
                   err |-> r.err]
             ELSE LET rest == UpLoop(pending, i + 1, fault, r.sm, r.tb)
                  IN  [rest EXCEPT !.applied = <<pending[i]>> \o @]

\* Migrator.Up, run from start to end on the directory dir
Up(dir) ==
    \E fault \in UpFaults :
        LET p == GetPendingMigrations(dir, schema_migrations, fault)
            r == IF p.err # NoError
                 THEN [sm |-> schema_migrations, tb |-> tables, applied |-> <<>>,
                       failed |-> <<>>, err |-> p.err]
                 ELSE UpLoop(p.pending, 1, fault, schema_migrations, tables)
        IN  /\ schema_migrations' = r.sm
            /\ tables' = r.tb
            /\ up' = [kind |-> "Up", dir |-> dir, pending |-> p.pending,
                      applied |-> r.applied, failed |-> r.failed, err |-> r.err]
            /\ UNCHANGED <<storeVars, limVars, svcVars, lockVars, cmdVars, bucket,
                           tplVars>>

MigratorInit ==
    /\ now = 0
    /\ StoreIdle
    /\ LimiterIdle
    /\ ServiceIdle
    /\ LockIdle
    /\ CommandsIdle
    /\ BucketIdle
    /\ TemplatesIdle
    /\ MigratorIdle

MigratorNext == \E dir \in Dirs : Up(dir)

SpecMigrator == MigratorInit /\ [][MigratorNext]_vars

\* the elements of a sequence
Range(q) == {q[i] : i \in 1..Len(q)}

\* C37: Migrator.Up applies the pending migrations in ascending version
\* order, each exactly once and each recorded in schema_migrations in the
\* same transaction as its SQL; after a successful Up no migration is pending
\* and a second Up applies nothing.
C37_UpAppliesPendingInOrderOnce ==
    [][up'.kind = "Up" =>
          LET done == up'.applied
              inOrder(q) == \A i, j \in 1..Len(q) : i < j => StringLess(q[i], q[j])
          IN  /\ inOrder(up'.pending) /\ inOrder(done)
              /\ (up'.err = NoError \/ up'.failed # <<>>) =>
                    Range(up'.pending) = up'.dir \ schema_migrations
              /\ Range(done) \subseteq up'.dir \ schema_migrations
              /\ schema_migrations' = schema_migrations \cup Range(done)
              /\ tables' = tables \cup Range(done)
              /\ tables' = schema_migrations'
              /\ up'.err = NoError =>
                    /\ done = up'.pending
                    /\ up'.dir \ schema_migrations' = {}
              /\ (up.kind = "Up" /\ up.err = NoError /\ up'.dir = up.dir) =>
                    done = <<>>]_vars

\* a successful Up that found the first migration applied and applied the
\* later ones of a directory of three, in order
C37_Witness ==
    /\ up.kind = "Up" /\ up.err = NoError
    /\ up.dir = {Version(1), Version(2), Version(3)}
    /\ up.applied = <<Version(2), Version(3)>>
    /\ schema_migrations = up.dir
    /\ tables = up.dir

\* C38: if a migration fails during Migrator.Up, Up returns an error, every
\* earlier migration of that run stays applied and recorded, the failing
\* migration leaves no record in schema_migrations, and no later migration
\* is attempted; schema_migrations always holds exactly the migrations whose
\* transaction committed.
C38_FailedMigrationStopsUp ==
    [][up'.kind = "Up" =>
          /\ tables' = schema_migrations'
          /\ up'.failed # <<>> =>
                /\ up'.err # NoError
                /\ \E n \in 1..Len(up'.pending) :
                      /\ up'.pending[n] = up'.failed
                      /\ up'.applied = SubSeq(up'.pending, 1, n - 1)
                /\ schema_migrations' = schema_migrations \cup Range(up'.applied)
                /\ up'.failed \notin schema_migrations'
          /\ up'.failed = <<>> =>
                (up'.err = NoError \/ schema_migrations' = schema_migrations)]_vars

\* an Up over three pending migrations that failed at the second: the first
\* is applied and recorded, the second and third are not
C38_Witness ==
    /\ up.kind = "Up" /\ up.err # NoError
    /\ up.pending = <<Version(1), Version(2), Version(3)>>
    /\ up.failed = Version(2)
    /\ up.applied = <<Version(1)>>
    /\ schema_migrations = {Version(1)}
    /\ tables = {Version(1)}

-----------------------------------------------------------------------------
(* Reactions to posts: PostCommandHandler.ReactToPost                        *)
(* (server/commands/post_commands.go), the commands handled one after the    *)
(* other.  post_reactions holds at most one row for a (user_id, post_id)     *)
(* pair, the conflict target of the handler's upsert; it is modelled as a    *)
(* function from the pairs that have a row to the reaction of the row.       *)

ReactUsers == {1, 2}
ReactPosts == {1, 2}
Reactions == {"like", "dislike", "love", ""}

\* type ReactToPostCommand struct
ReactToPostCommand ==
    [UserID : ReactUsers, PostID : ReactPosts, Reaction : Reactions]

\* the statement of ReactToPost at which the database fails, if any
ReactFaults == {"none", "select", "delete", "upsert"}

\* a validation that accepts every reaction
validateReactionAny(reaction) == NilError

\* PostCommandHandler.validateReaction
validateReaction(reaction) ==
    IF reaction # "like" /\ reaction # "dislike"
    THEN Errorf("reaction must be 'like' or 'dislike'", <<>>)
    ELSE NilError

\* the table rs without the row of the pair k
DeleteReaction(rs, k) == [p \in DOMAIN rs \ {k} |-> rs[p]]

\* INSERT ... ON CONFLICT(user_id, post_id) DO UPDATE SET reaction = ?
UpsertReaction(rs, k, reaction) ==
    [p \in DOMAIN rs \cup {k} |-> IF p = k THEN reaction ELSE rs[p]]

\* ReactToPost(cmd) on the table rs, the database failing at fault: what it
\* returns and the table it leaves
ReactToPostResult(cmd, fault, rs) ==
    LET verr == validateReaction(cmd.Reaction)
        k == <<cmd.UserID, cmd.PostID>>
        existingReaction ==
            IF k \in DOMAIN rs THEN [Valid |-> TRUE, String |-> rs[k]]
            ELSE [Valid |-> FALSE, String |-> ""]
    IN  IF verr # NilError
        THEN [result |-> CommandResult(FALSE, 0, verr), err |-> NilError, rs |-> rs]
        ELSE IF fault = "select"
        THEN [result |-> NilResult,
              err |-> Errorf("failed to check existing reaction: %w", <<>>), rs |-> rs]
        ELSE IF existingReaction.Valid /\ existingReaction.String = cmd.Reaction
        THEN IF fault = "delete"
             THEN [result |-> NilResult,
                   err |-> Errorf("failed to remove reaction: %w", <<>>), rs |-> rs]
             ELSE [result |-> CommandResult(TRUE, [action |-> "removed"], NilError),
                   err |-> NilError, rs |-> DeleteReaction(rs, k)]
        ELSE IF fault = "upsert"
        THEN [result |-> NilResult,
              err |-> Errorf("failed to upsert reaction: %w", <<>>), rs |-> rs]
        ELSE [result |-> CommandResult(TRUE, [action |-> "added",
                                              reaction |-> cmd.Reaction], NilError),
              err |-> NilError, rs |-> UpsertReaction(rs, k, cmd.Reaction)]

\* PostCommandHandler.ReactToPost, run from start to end
ReactToPost(cmd) ==
    \E fault \in ReactFaults :
        LET r == ReactToPostResult(cmd, fault, reactions)
        IN  /\ reactions' = r.rs
            /\ out' = [kind |-> "ReactToPost", cmd |-> cmd, result |-> r.result,
                       err |-> r.err]
            /\ UNCHANGED <<posts, links, nonCmdVars>>

ReactionsInit ==
    /\ now = 0
    /\ StoreIdle
    /\ LimiterIdle
    /\ ServiceIdle
    /\ LockIdle
    /\ CommandsIdle
    /\ ExtIdle

ReactionsNext == \E cmd \in ReactToPostCommand : ReactToPost(cmd)

SpecReactions == ReactionsInit /\ [][ReactionsNext]_vars

\* the stored reaction of a pair: "none", "like" or "dislike"
StoredReaction(rs, k) == IF k \in DOMAIN rs THEN rs[k] ELSE "none"

\* C39: for each (user, post) pair the stored reaction follows the machine
\* none/like/dislike under sequential ReactToPost commands: a command whose
\* reaction equals the stored one removes it, any other valid command stores
\* the commanded reaction, no other pair changes, and a command whose
\* reaction is neither like nor dislike returns Success = false and leaves
\* the stored reactions unchanged.
C39_ReactionStateMachine ==
    [][out'.kind = "ReactToPost" =>
          LET cmd == out'.cmd
              k == <<cmd.UserID, cmd.PostID>>
              before == StoredReaction(reactions, k)
              after == StoredReaction(reactions', k)
          IN  /\ \A p \in ReactUsers \X ReactPosts :
                    /\ StoredReaction(reactions', p) \in {"none", "like", "dislike"}
                    /\ p # k => StoredReaction(reactions', p) = StoredReaction(reactions, p)
              /\ cmd.Reaction \notin {"like", "dislike"} =>
                    /\ ~out'.result.isNil /\ ~out'.result.Success
                    /\ out'.err = NilError
                    /\ reactions' = reactions
              /\ (cmd.Reaction \in {"like", "dislike"} /\ out'.err = NilError) =>
                    /\ out'.result.Success
                    /\ after = IF before = cmd.Reaction THEN "none" ELSE cmd.Reaction
              /\ out'.err # NilError => reactions' = reactions]_vars

\* user 1 has just changed a like of post 1 into a dislike while user 2 keeps
\* a like of the same post
C39_Witness ==
    /\ out.kind = "ReactToPost"
    /\ out.cmd = [UserID |-> 1, PostID |-> 1, Reaction |-> "dislike"]
    /\ out.result.Success
    /\ out.result.Data.action = "added"
    /\ StoredReaction(reactions, <<1, 1>>) = "dislike"
    /\ StoredReaction(reactions, <<2, 1>>) = "like"

====
